---- MODULE Spec2Model ----
(***************************************************************************)
(* Job lifecycle and progress engine of vmaker.                            *)
(*                                                                         *)
(* Two variants of the program are modelled side by side, selected by the  *)
(* variable `variant`:                                                     *)
(*   "server"  src/server.py      Flask + SocketIO, one worker thread      *)
(*   "app"     src/static/app.py  FastAPI, one asyncio worker task         *)
(*                                                                         *)
(* Units.  Times are whole seconds.  A progress value is kept in           *)
(* hundredths of a percent (round(x, 2) in the source), so 100.0 is        *)
(* 100 * Scale.                                                            *)
(*                                                                         *)
(* Granularity.  In the threaded variant every `jobs[job_id][k] = v`       *)
(* statement is a separate step (another thread can run between two of     *)
(* them): a handler step performs its first store and leaves the following *)
(* ones pending in wk[w].wq, and `store` performs them one by one.  In the *)
(* asyncio variant the stores between two awaits happen in one step.       *)
(***************************************************************************)
EXTENDS Integers, Sequences, FiniteSets, TLC

\* ---------------------------------------------------------------- bounds
MaxJobs == 1        \* submissions per run, inputs drawn from the whole alphabets
MaxQueue == 2       \* submissions per run of the queue workload (QueueSpec)
MaxPuts == 2        \* times one id is placed on the queue in the repeated-put workload
MaxTicks == 2       \* progress callbacks / diagnostic lines / segments per job
MaxWatched == 1     \* submissions per run of the workload with subscribers (BusSpec)
MaxUpserts == 1      \* template upserts per run (TemplateSpec)
MaxTexts == 3         \* texts of a template (LayoutSpec)
MaxItems == 21      \* items of the segment sequence of a long transcription (TranscribeSpec)

\* ------------------------------------------------------ program constants
Scale == 100        \* round(prog, 2): two decimals
NumWorkers == 1     \* one worker thread / one worker task

NULL == "None"

Variants == {"server", "app"}
\* A pool with one more worker than the program starts.
Workers_one_more == 1..(NumWorkers + 1)

Workers == 1..NumWorkers

FullProgress == 100 * Scale      \* 100.0
HeuristicStep == 5 * Scale       \* + 5.0 per item when the duration is unknown
HeuristicCap == 99 * Scale       \* min(99.0, ...)

\* app.py do_template_clip: the frame and its safe zone.
PORTRAIT_H == 1920
SAFE_TOP == 120
SAFE_BOTTOM == 120
SAFE_CENTER == PORTRAIT_H \div 2
Padding == 40

\* Kinds the submission endpoints of each variant create.
Kinds(v) ==
    IF v = "server" THEN {"download", "transcribe", "clip", "clip_template"}
    ELSE {"download", "transcribe", "clip", "template_clip", "merge"}

\* The if/elif chain of the worker loop: the handler called for a kind.
\* A dispatch chain whose transcribe branch names the download handler.
Dispatch_crossed(v, kind) ==
    IF kind \in {"download", "transcribe"} THEN "do_download"
    ELSE IF kind = "clip" THEN "do_clip"
    ELSE IF v = "server" /\ kind = "clip_template" THEN "do_clip_with_template"
    ELSE IF v = "app" /\ kind = "template_clip" THEN "do_template_clip"
    ELSE IF v = "app" /\ kind = "merge" THEN "do_merge"
    ELSE "unknown"

Dispatch(v, kind) ==
    IF kind = "download" THEN "do_download"
    ELSE IF kind = "transcribe" THEN "do_transcribe"
    ELSE IF kind = "clip" THEN "do_clip"
    ELSE IF v = "server" /\ kind = "clip_template" THEN "do_clip_with_template"
    ELSE IF v = "app" /\ kind = "template_clip" THEN "do_template_clip"
    ELSE IF v = "app" /\ kind = "merge" THEN "do_merge"
    ELSE "unknown"

\* ------------------------------------------------------- input alphabets
Sessions == {NULL, "s1"}                 \* session_id of a request
Ranges == {<<0, 2>>, <<1, 1>>, <<2, 1>>}     \* (start, end) of a clip request
TemplateDurations == {2, 0, -1}          \* template["duration"] of a stored template
TemplateNames == {"t1", "t2"}            \* template names; t1 is on disk at startup
\* Optional request fields: <<>> is None (the field is left out), <<v>> is the value v.
CustomDurations == {<<>>, <<0>>, <<-1>>}     \* custom_duration of a template-clip request
CustomOverlays == {<<>>, <<"custom">>}      \* custom_overlays of a template-clip request
\* template_json of app.py: has a resolution?  number of texts
\* A text of a template: its "y" is a word a position is looked for in, its
\* "fontsize" is optional.
Bottom == <<"b", "o", "t", "t", "o", "m">>
Caption == [y |-> Bottom, fontsize |-> <<>>]
Templates ==
    {[resolution |-> TRUE, texts |-> <<Caption>>], [resolution |-> FALSE, texts |-> <<Caption>>]}
TotalDurations == {0, 3}                 \* ffprobe result; 0 stands for unknown (None or 0.0)
Secs == {0, 1, 3}                        \* elapsed times and segment ends an engine reports
Bytes == {0, 1, 2}                       \* byte counts the download engine reports

\* File names are sequences of characters, so that str.endswith is computed.
FileA == <<"a", ".", "m", "p", "4">>
FileB == <<"b", ".", "t", "x", "t">>
FileC == <<"c", ".", "M", "P", "4">>
SubDir == <<"s", "u", "b">>
\* Lines of the transcoder's diagnostic stream.  A time is <<h, m, s, f, k>>: the
\* fraction f is written with k digits.
Stamps == {<<0, 1, 5, 50, 2>>, <<0, 0, 1, 0, 2>>, <<0, 2, 10, 0, 2>>, <<1, 0, 0, 5, 1>>}
Prefixes == {<<>>, <<"f", "p", "s", "=", "2", " ">>}
TwoDigits(number) == <<ToString(number \div 10), ToString(number % 10)>>
MarkerLine(prefix, stamp) ==
    prefix \o <<"t", "i", "m", "e", "=">> \o TwoDigits(stamp[1]) \o <<":">>
        \o TwoDigits(stamp[2]) \o <<":">> \o TwoDigits(stamp[3]) \o <<".">>
        \o (IF stamp[5] = 2 THEN TwoDigits(stamp[4]) ELSE <<ToString(stamp[4])>>)
        \o <<" ", "b">>
\* time=N/A, a time without a fraction, a line without the word.
OtherLines ==
    {<<"t", "i", "m", "e", "=", "N", "/", "A">>,
     <<"t", "i", "m", "e", "=", "0", "0", ":", "0", "1", ":", "0", "5">>,
     <<"s", "i", "z", "e", "=", "1", ":", "2", ":", "3", ".", "4">>}
LineTexts ==
    {MarkerLine(prefix, stamp) : prefix \in Prefixes, stamp \in Stamps} \cup OtherLines
\* What a session directory can contain: regular files and a subdirectory.
Entries ==
    {[kind |-> "file", name |-> FileA], [kind |-> "file", name |-> FileB],
     [kind |-> "file", name |-> FileC], [kind |-> "dir", name |-> SubDir]}
SessionIds == {"s1", "s2"}               \* session ids of cleanup requests
NoDir == [exists |-> FALSE, entries |-> {}]
Dirs == {NoDir} \cup {[exists |-> TRUE, entries |-> es] : es \in SUBSET Entries}
NoCall ==
    [fn |-> NULL, session_id |-> NULL, delete_clips |-> FALSE, delete_video |-> FALSE,
     existed |-> FALSE, listing |-> {}, ret |-> NULL]

\* The requests of a run: how many, and the values their fields take.
Detail ==
    [texts |-> BOOLEAN, limit |-> MaxJobs, sessions |-> Sessions, ranges |-> Ranges,
     durations |-> CustomDurations, templates |-> Templates, names |-> {"t1"},
     overlays |-> {<<>>}]
Load ==
    [texts |-> {TRUE}, limit |-> MaxQueue, sessions |-> {NULL}, ranges |-> {<<0, 2>>},
     durations |-> {<<>>}, templates |-> {[resolution |-> TRUE, texts |-> <<Caption>>]},
     names |-> {"t1"}, overlays |-> {<<>>}]
\* One request, with every combination of field values.
Again == [Detail EXCEPT !.limit = 1]
\* Plain requests watched by subscribers; a template-clip request may name a
\* template that is not stored (t2), or leave the required fields out.
Watch == [Load EXCEPT !.limit = MaxWatched, !.names = {"t1", "t2", NULL}]
\* Template-clip requests with overrides, for templates that are edited meanwhile.
Timed ==
    [Load EXCEPT !.limit = 1, !.texts = {TRUE}, !.sessions = {NULL},
                 !.ranges = {<<0, 130>>, <<0, 3>>, <<5, 65>>}]
Custom ==
    [Load EXCEPT !.limit = 1, !.durations = CustomDurations,
                 !.names = TemplateNames, !.overlays = CustomOverlays]

\* ----------------------------------------------------------------- state
VARIABLES
    variant,            \* which program runs
    WHISPER_AVAILABLE,  \* server.py: the import of faster_whisper succeeded
    jobs,               \* the job table: a sequence, job id = index
    job_queue,          \* FIFO of job ids
    wk,                 \* per worker: position in job_worker / the handler, locals
    clips_metadata,     \* server.py: provenance records of produced clips
    list_files,         \* app.py do_merge: list files present on disk (by job id)
    dequeues,           \* history: how often each job id was taken from the queue
    active,             \* the registry of subscribers (app.py: manager.active)
    conn,               \* per connection: not yet opened, open, or closed after a failed send
    inbox,              \* per connection: the events written to it, in order
    loop,               \* app.py: the broadcasts of the event loop that have not completed;
                        \* server.py: the announcements request threads have still to emit
    response,           \* the answer of the last submission
    templates,          \* server.py: the dict `templates`, name -> reference (0: no entry)
    heap,               \* the template dicts, by reference
    session_dirs,       \* sessions/: per session id, the entries of its directory
    cleanup,            \* the last call of a cleanup function and what it returned
    line,               \* transcoder loop: the text of the line read last
    auto_y              \* app.py do_template_clip: the y of each drawtext filter, in order

\* The progress bus.
bus == <<active, conn, inbox, loop>>

\* The session directories and the cleanup calls.
disk == <<session_dirs, cleanup>>

\* Locals of the handlers that are kept for the arithmetic they are the input or
\* the result of.
locals == <<line, auto_y>>

vars ==
    <<variant, WHISPER_AVAILABLE, jobs, job_queue, wk, clips_metadata, list_files,
      dequeues, bus, response, templates, heap, disk, locals>>

\* A worker between two jobs.  returncode -1: no child process has exited.
\* out: the events the current step still has to publish; seq: how many events
\* the handler has published for its job.
Idle ==
    [pc |-> "idle", job |-> 0, handler |-> NULL, wq |-> <<>>, ticks |-> 0,
     input_exists |-> FALSE, duration |-> 0, processed_time |-> 0,
     proc |-> "none", returncode |-> -1, msg |-> NULL, out |-> <<>>, seq |-> 0]

\* ------------------------------------------------------ publishing events
\* The connections of a run: on "fast" a send completes at once, on "slow" it
\* suspends the sender until the connection has drained.
Sockets == {"fast", "slow"}

\* The events a handler publishes in one step for its job, numbered in the order
\* of publication; seq events were published by the handler before.
Events(job, seq, types) ==
    [i \in 1..Len(types) |-> [job |-> job, n |-> seq + i, type |-> types[i]]]

\* What a connection receives for an event.  A job_update carries the job record
\* itself, which is serialised when the message is sent (socketio.emit,
\* ws.send_json): the receiver sees the fields as they are at that moment.
Message(ev, job) ==
    [job |-> ev.job, n |-> ev.n, type |-> ev.type,
     status |-> IF ev.type = "job_update" THEN job.status ELSE NULL,
     result |-> IF ev.type = "job_update" THEN job.result ELSE NULL,
     error |-> IF ev.type = "job_update" THEN job.error ELSE NULL]

\* The locals of a worker after a step that publishes events of the given types:
\* they wait in out until the worker has sent them.  With an empty registry a
\* broadcast sends nothing, suspends nowhere and writes the empty registry back.
Publish(rec, types) ==
    IF active = <<>> THEN rec
    ELSE [rec EXCEPT !.out = @ \o Events(rec.job, rec.seq, types), !.seq = @ + Len(types)]

\* A broadcast of the event loop: the event, the worker that awaits it (0: a task of
\* its own), the snapshot list(self.active), the position in it, the list living.
\* at: "created" (a task that has not run yet), "send" (running), "blocked"
\* (suspended in ws.send_json on todo[k]); turn: its place among the suspended.
Broadcast(ev, by, todo, at) ==
    [ev |-> ev, by |-> by, todo |-> todo, at |-> at, k |-> 1, living |-> <<>>, turn |-> 0]

\* The connections in a registry list.
Registered(list) == {list[i] : i \in DOMAIN list}

\* socketio.emit (server.py): the message is queued for every connected client.
Deliver(message) ==
    [s \in Sockets |->
        IF s \in Registered(active) THEN Append(inbox[s], message) ELSE inbox[s]]

\* asyncio.create_task(...) for each event: the tasks run when the loop is free.
CreateTasks(events) ==
    [i \in 1..Len(events) |-> Broadcast(events[i], 0, <<>>, "created")]

\* The broadcasts that are running: asyncio runs one coroutine at a time.
Running == {i \in DOMAIN loop : loop[i].at = "send"}

\* The worker task is suspended: in job_queue.get(), or in a send of its broadcast.
Suspended(w) ==
    \/ wk[w].pc = "idle"
    \/ \E i \in DOMAIN loop : loop[i].by = w /\ loop[i].at = "blocked"

\* Another coroutine of the event loop can run.
LoopFree == Running = {} /\ \A w \in Workers : Suspended(w)

\* ------------------------------------------------------------ arithmetic
Min(a, b) == IF a <= b THEN a ELSE b
Max(a, b) == IF a >= b THEN a ELSE b

\* n / d (d > 0) rounded to the nearest integer, ties to even: Python's round().
RoundHalfEven(n, d) ==
    LET q == n \div d
        r == n % d
    IN  IF 2 * r < d THEN q
        ELSE IF 2 * r > d THEN q + 1
        ELSE IF q % 2 = 0 THEN q ELSE q + 1

\* round(num / den * 100, 2) in hundredths of a percent, den # 0.
Round2Percent(num, den) ==
    IF den > 0 THEN RoundHalfEven(num * 100 * Scale, den)
    ELSE RoundHalfEven((0 - num) * 100 * Scale, 0 - den)

\* round(min(100.0, secs / duration * 100.0), 2), duration # 0.
ClampedProgress(secs, duration) == Min(FullProgress, Round2Percent(secs, duration))

\* download hook: prog = downloaded / total * 100 if total else 0.0; round(prog, 2)
DownloadProgress(downloaded, total_bytes) ==
    IF total_bytes # 0 THEN Round2Percent(downloaded, total_bytes) ELSE 0

\* The unknown-duration branch without min(99.0, ...).
TranscribeProgress_uncapped(progress, processed_time, total_duration) ==
    IF total_duration # 0 THEN ClampedProgress(processed_time, total_duration)
    ELSE progress + HeuristicStep

\* transcribe: progress after one item of the segment sequence.
TranscribeProgress(progress, processed_time, total_duration) ==
    IF total_duration # 0 THEN ClampedProgress(processed_time, total_duration)
    ELSE Min(HeuristicCap, progress + HeuristicStep)

\* ------------------------------------------------------------- job table
create_job(kind, meta) ==
    [kind |-> kind, status |-> "queued", result |-> NULL, error |-> NULL,
     progress |-> 0, meta |-> meta, updated_at_current |-> TRUE]

\* One store `jobs[job_id][field] = value`; ("updated_at", _) is
\* `jobs[job_id]["updated_at"] = time.time()`.
ApplyWrite(job, write) ==
    IF write[1] = "updated_at" THEN [job EXCEPT !.updated_at_current = TRUE]
    ELSE [job EXCEPT ![write[1]] = write[2], !.updated_at_current = FALSE]

RECURSIVE ApplyWrites(_, _)
ApplyWrites(job, writes) ==
    IF writes = <<>> THEN job
    ELSE ApplyWrites(ApplyWrite(job, Head(writes)), Tail(writes))

\* The stores of one handler step on job j, then the worker's locals become `next`.
Commit(w, j, writes, next) ==
    IF writes = <<>> THEN
        /\ jobs' = jobs
        /\ wk' = [wk EXCEPT ![w] = next]
    ELSE IF variant = "app" THEN
        /\ jobs' = [jobs EXCEPT ![j] = ApplyWrites(jobs[j], writes)]
        /\ wk' = [wk EXCEPT ![w] = next]
    ELSE
        /\ jobs' = [jobs EXCEPT ![j] = ApplyWrite(jobs[j], Head(writes))]
        /\ wk' = [wk EXCEPT ![w] = [next EXCEPT !.wq = Tail(writes)]]

\* The remaining stores of a handler step of the threaded variant.
store(w) ==
    /\ wk[w].wq # <<>>
    /\ jobs' = [jobs EXCEPT ![wk[w].job] = ApplyWrite(jobs[wk[w].job], Head(wk[w].wq))]
    /\ wk' = [wk EXCEPT ![w].wq = Tail(wk[w].wq)]
    /\ UNCHANGED <<variant, WHISPER_AVAILABLE, job_queue, clips_metadata, list_files, dequeues, bus, response,
                   templates, heap, disk, locals>>

\* The stores of the blocks the handlers share.
\* updated_at is stored with the terminal fields only in app.py.
Stamp == IF variant = "app" THEN <<<<"updated_at", NULL>>>> ELSE <<>>

\* Error stores in the other order: the message first, the status after it.
ErrorWrites_message_first(msg) == <<<<"error", msg>>, <<"status", "error">>>>

ErrorWrites(msg) == <<<<"status", "error">>, <<"error", msg>>>>

\* Success stores that leave progress where the last callback put it.
FinishedWrites_keep_progress(result) ==
    <<<<"status", "finished">>, <<"result", result>>>>

FinishedWrites(result) ==
    <<<<"status", "finished">>, <<"result", result>>, <<"progress", FullProgress>>>>

\* ------------------------------------------------------------ submission
\* push_job_update(job_id) of an endpoint, which follows job_queue.put: the queued
\* job is to be announced.  In app.py the broadcast runs in the endpoint's
\* coroutine, when the event loop gets to it; in server.py the request thread
\* calls socketio.emit when it is scheduled, and the worker thread may run first.
Announce(job_id) ==
    LET ev == [job |-> job_id, n |-> 0, type |-> "job_update"] IN
    IF active = <<>> THEN UNCHANGED <<inbox, loop>>
    ELSE loop' = Append(loop, Broadcast(ev, 0, <<>>, "created")) /\ inbox' = inbox

\* An endpoint that creates the job before it looks at the request.
RejectSubmission_after_create(msg) ==
    /\ Len(jobs) < MaxWatched
    /\ jobs' = Append(jobs, create_job("template_clip", [session_id |-> NULL]))
    /\ dequeues' = Append(dequeues, 0)
    /\ response' = msg
    /\ UNCHANGED <<variant, WHISPER_AVAILABLE, job_queue, wk, clips_metadata, list_files, bus,
                   templates, heap, disk, locals>>

\* An endpoint returns an error before create_job.
RejectSubmission(msg) ==
    /\ response' = msg
    /\ UNCHANGED <<variant, WHISPER_AVAILABLE, jobs, job_queue, wk, clips_metadata,
                   list_files, dequeues, bus, templates, heap, disk, locals>>

\* An endpoint that also stores status queued into the records created before.
Submit_touching_others(in, kind, meta) ==
    /\ Len(jobs) < in.limit
    /\ kind \in Kinds(variant)
    /\ jobs' = Append([j \in DOMAIN jobs |-> [jobs[j] EXCEPT !.status = "queued"]],
                      create_job(kind, meta))
    /\ job_queue' = Append(job_queue, Len(jobs) + 1)
    /\ dequeues' = Append(dequeues, 0)
    /\ response' = "job_id"
    /\ Announce(Len(jobs) + 1)
    /\ UNCHANGED <<variant, WHISPER_AVAILABLE, wk, clips_metadata, list_files, active, conn,
                   templates, disk, locals>>

\* An endpoint that puts the new id on the queue twice.
Submit_put_twice(in, kind, meta) ==
    /\ Len(jobs) < in.limit
    /\ kind \in Kinds(variant)
    /\ jobs' = Append(jobs, create_job(kind, meta))
    /\ job_queue' = job_queue \o <<Len(jobs) + 1, Len(jobs) + 1>>
    /\ dequeues' = Append(dequeues, 0)
    /\ response' = "job_id"
    /\ Announce(Len(jobs) + 1)
    /\ UNCHANGED <<variant, WHISPER_AVAILABLE, wk, clips_metadata, list_files, active, conn,
                   templates, disk, locals>>

\* An endpoint: create_job, then job_queue.put.  The new id is fresh (uuid4).
\* The dict that `meta` refers to, if any, is allocated by the endpoint.
Submit(in, kind, meta) ==
    /\ Len(jobs) < in.limit
    /\ kind \in Kinds(variant)
    /\ jobs' = Append(jobs, create_job(kind, meta))
    /\ job_queue' = Append(job_queue, Len(jobs) + 1)
    /\ dequeues' = Append(dequeues, 0)
    /\ response' = "job_id"
    /\ Announce(Len(jobs) + 1)
    /\ UNCHANGED <<variant, WHISPER_AVAILABLE, wk, clips_metadata, list_files, active, conn,
                   templates, disk, locals>>

api_download(in) ==
    /\ \E s \in in.sessions : Submit(in, "download", [session_id |-> s])
    /\ UNCHANGED heap

api_transcribe(in) ==
    /\ \E s \in in.sessions : Submit(in, "transcribe", [session_id |-> s])
    /\ UNCHANGED heap

api_clip(in) ==
    /\ \E r \in in.ranges, text \in in.texts, s \in in.sessions :
        Submit(in, "clip",
               [session_id |-> s, text |-> text, start |-> r[1], end |-> r[2]])
    /\ UNCHANGED heap

\* The template that load_templates finds on disk at startup.
StartupTemplate == [overlays |-> "stored", duration |-> 2, start |-> 0]

\* `data` of a POST /api/templates request.
TemplateData == {[overlays |-> "edited", duration |-> d, start |-> 0] : d \in TemplateDurations}

\* `template = templates[template_name]`: the job's template is the stored dict itself.
dict_copy_alias(h, ref) == [heap |-> h, ref |-> ref]

\* dict.copy(): a new dict with the items of the dict at `ref`.  The copy is
\* shallow; the values of a template are never changed in place, only replaced.
dict_copy(h, ref) == [heap |-> Append(h, h[ref]), ref |-> Len(h) + 1]

\* `if custom_x is not None: template["x"] = custom_x`, for overlays and duration
\* (start, output_name, resolution and flip are overridden the same way).
Override(template, custom_overlays, custom_duration) ==
    [overlays |-> IF custom_overlays # <<>> THEN custom_overlays[1] ELSE template.overlays,
     duration |-> IF custom_duration # <<>> THEN custom_duration[1] ELSE template.duration,
     start |-> template.start]

\* server.py: the job carries a copy of the stored template with the request's
\* overrides.
api_clip_with_template(in) ==
    \E template_name \in in.names, custom_overlays \in in.overlays,
       custom_duration \in in.durations, s \in in.sessions :
        IF template_name = NULL THEN
            variant = "server" /\ RejectSubmission("filename and template_name required")
        ELSE IF templates[template_name] = 0 THEN
            variant = "server" /\ RejectSubmission("template not found")
        ELSE
            LET copied == dict_copy(heap, templates[template_name])
                template == copied.ref
            IN  /\ heap' = [copied.heap EXCEPT
                               ![template] = Override(@, custom_overlays, custom_duration)]
                /\ Submit(in, "clip_template", [session_id |-> s, template |-> template])

\* app.py: the request carries start and end, the template comes from a file (t1
\* is in the templates directory, t2 is not) or inline.
api_template_clip(in) ==
    \E template_name \in in.names :
        IF template_name = "t2" THEN
            variant = "app" /\ RejectSubmission("template not found")
        ELSE IF template_name = NULL THEN
            variant = "app" /\ RejectSubmission("template_name or template_json required")
        ELSE /\ Len(jobs) < in.limit
             /\ \E r \in in.ranges, t \in in.templates, s \in in.sessions :
                    Submit(in, "template_clip",
                           [session_id |-> s, start |-> r[1], end |-> r[2], template |-> t])
             /\ UNCHANGED heap

api_merge(in) ==
    /\ \E s \in in.sessions : Submit(in, "merge", [session_id |-> s])
    /\ UNCHANGED heap

\* POST /api/templates: save_template writes the JSON file, then stores the dict
\* of the request under the name.
create_template ==
    /\ variant = "server"
    /\ Len(heap) < 1 + MaxUpserts + Cardinality({j \in DOMAIN jobs : jobs[j].kind = "clip_template"})
    /\ \E name \in TemplateNames \cup {NULL}, data \in {<<>>} \cup {<<t>> : t \in TemplateData},
          written \in BOOLEAN :
        IF name = NULL \/ data = <<>> THEN
            /\ response' = "name and data required"
            /\ UNCHANGED <<templates, heap>>
        ELSE IF ~written THEN
            /\ response' = "OSError"
            /\ UNCHANGED <<templates, heap>>
        ELSE
            /\ response' = "template created"
            /\ heap' = Append(heap, data[1])
            /\ templates' = [templates EXCEPT ![name] = Len(heap) + 1]
    /\ UNCHANGED <<variant, WHISPER_AVAILABLE, jobs, job_queue, wk, clips_metadata,
                   list_files, dequeues, bus, disk, locals>>

Occurrences(q, j) == Cardinality({i \in DOMAIN q : q[i] = j})

\* job_queue.put(job_id) once more for an id that was put before.
put_again ==
    /\ \E j \in DOMAIN jobs :
        /\ dequeues[j] + Occurrences(job_queue, j) < MaxPuts
        /\ job_queue' = Append(job_queue, j)
    /\ UNCHANGED <<variant, WHISPER_AVAILABLE, jobs, wk, clips_metadata, list_files, dequeues, bus, response,
                   templates, heap, disk, locals>>

\* ---------------------------------------------------------------- worker
\* The worker is at pc: the stores of the last step are done, its events are sent.
Ready(w, pc) ==
    /\ wk[w].pc = pc
    /\ wk[w].wq = <<>>
    /\ wk[w].out = <<>>
    /\ Running = {}
    /\ \A i \in DOMAIN loop : loop[i].by # w

Last(q) == q[Len(q)]

Front(q) == SubSeq(q, 1, Len(q) - 1)

\* A worker loop that takes the id that was put last.
job_worker_newest_first(w) ==
    /\ Ready(w, "idle")
    /\ job_queue # <<>>
    /\ job_queue' = Front(job_queue)
    /\ LET job_id == Last(job_queue) IN
        IF job_id \notin DOMAIN jobs THEN
            UNCHANGED <<jobs, wk, dequeues>>
        ELSE
            /\ dequeues' = [dequeues EXCEPT ![job_id] = @ + 1]
            /\ LET handler == Dispatch(variant, jobs[job_id].kind)
                   next == [Idle EXCEPT !.job = job_id, !.handler = handler]
               IN  IF handler # "unknown" THEN
                       /\ wk' = [wk EXCEPT ![w] = [next EXCEPT !.pc = "begin"]]
                       /\ jobs' = jobs
                   ELSE
                       Commit(w, job_id, ErrorWrites("unknown job kind"),
                              Publish([next EXCEPT !.pc = "ret"], <<"job_update">>))
    /\ UNCHANGED <<variant, WHISPER_AVAILABLE, clips_metadata, list_files, bus, response,
                   templates, heap, disk, locals>>

\* job_worker (server.py) / worker_loop (app.py): dequeue one id and dispatch on kind.
job_worker(w) ==
    /\ Ready(w, "idle")
    /\ job_queue # <<>>
    /\ job_queue' = Tail(job_queue)
    /\ LET job_id == Head(job_queue) IN
        IF job_id \notin DOMAIN jobs THEN
            UNCHANGED <<jobs, wk, dequeues>>
        ELSE
            /\ dequeues' = [dequeues EXCEPT ![job_id] = @ + 1]
            /\ LET handler == Dispatch(variant, jobs[job_id].kind)
                   next == [Idle EXCEPT !.job = job_id, !.handler = handler]
               IN  IF handler # "unknown" THEN
                       /\ wk' = [wk EXCEPT ![w] = [next EXCEPT !.pc = "begin"]]
                       /\ jobs' = jobs
                   ELSE
                       Commit(w, job_id, ErrorWrites("unknown job kind"),
                              Publish([next EXCEPT !.pc = "ret"], <<"job_update">>))
    /\ UNCHANGED <<variant, WHISPER_AVAILABLE, clips_metadata, list_files, bus, response,
                   templates, heap, disk, locals>>

\* A worker loop whose except clause records the error and raises again: the loop ends.
worker_except_reraise(w) ==
    /\ Ready(w, "escaped")
    /\ Commit(w, wk[w].job, ErrorWrites(wk[w].msg),
              Publish([wk[w] EXCEPT !.pc = "stopped"], <<"job_update">>))
    /\ UNCHANGED <<variant, WHISPER_AVAILABLE, job_queue, clips_metadata, list_files, dequeues, bus, response,
                   templates, heap, disk, locals>>

\* A worker loop whose except clause only logs the exception.
worker_except_log_only(w) ==
    /\ Ready(w, "escaped")
    /\ wk' = [wk EXCEPT ![w].pc = "ret"]
    /\ UNCHANGED <<variant, WHISPER_AVAILABLE, jobs, job_queue, clips_metadata, list_files, dequeues, bus, response,
                   templates, heap, disk, locals>>

\* The except clause of the worker loop: an exception escaped the handler.
worker_except(w) ==
    /\ Ready(w, "escaped")
    /\ Commit(w, wk[w].job, ErrorWrites(wk[w].msg),
              Publish([wk[w] EXCEPT !.pc = "ret"], <<"job_update">>))
    /\ UNCHANGED <<variant, WHISPER_AVAILABLE, job_queue, clips_metadata, list_files, dequeues, bus, response,
                   templates, heap, disk, locals>>

\* finally: job_queue.task_done(); the loop goes back to the dequeue.
task_done(w) ==
    /\ Ready(w, "ret")
    /\ wk' = [wk EXCEPT ![w] = Idle]
    /\ UNCHANGED <<variant, WHISPER_AVAILABLE, jobs, job_queue, clips_metadata, list_files, dequeues, bus, response,
                   templates, heap, disk, locals>>

\* --------------------------------------------------------- shared blocks
JobOf(w) == jobs[wk[w].job]

Handles(w, pc, handlers) == Ready(w, pc) /\ wk[w].handler \in handlers

ClipHandlers == {"do_clip", "do_clip_with_template", "do_template_clip"}
FfmpegHandlers == ClipHandlers \cup {"do_merge"}

\* Where a handler goes when its try statement is left: do_merge has a finally clause.
AfterTry(w) == IF wk[w].handler = "do_merge" THEN "finally" ELSE "ret"

\* First statement of a handler: jobs[job_id]["status"] = "running".
Begin(w, handler, pc) ==
    /\ Handles(w, "begin", {handler})
    /\ Commit(w, wk[w].job, <<<<"status", "running">>>>,
              Publish([wk[w] EXCEPT !.pc = pc], <<"job_update">>))
    /\ UNCHANGED <<variant, WHISPER_AVAILABLE, job_queue, clips_metadata, list_files, dequeues, bus, response,
                   templates, heap, disk, locals>>

\* An early `status = error; error = msg; push; return` block of a handler.
Reject(w, msg) ==
    Commit(w, wk[w].job, ErrorWrites(msg),
           Publish([wk[w] EXCEPT !.pc = "ret"], <<"job_update">>))

\* An exception raised outside the handler's try statement: it reaches the worker loop.
Escape(w, msg) ==
    /\ wk' = [wk EXCEPT ![w] = [wk[w] EXCEPT !.pc = "escaped", !.msg = msg]]
    /\ jobs' = jobs

\* An exception raised inside the handler's try statement.
Raise(w, msg) ==
    /\ wk' = [wk EXCEPT ![w] = [wk[w] EXCEPT !.pc = "except", !.msg = msg]]
    /\ jobs' = jobs

\* An except clause that records the error and leaves the child alone.
handler_except_no_kill(w) ==
    /\ Ready(w, "except")
    /\ Commit(w, wk[w].job, ErrorWrites(wk[w].msg) \o Stamp,
              Publish([wk[w] EXCEPT !.pc = AfterTry(w)], <<"job_update">>))
    /\ UNCHANGED <<variant, WHISPER_AVAILABLE, job_queue, clips_metadata, list_files, dequeues, bus, response,
                   templates, heap, disk, locals>>

\* An except clause that records the error and publishes nothing.
handler_except_unpublished(w) ==
    /\ Ready(w, "except")
    /\ Commit(w, wk[w].job, ErrorWrites(wk[w].msg) \o Stamp,
              [wk[w] EXCEPT !.pc = AfterTry(w),
                            !.proc = IF wk[w].proc = "running" THEN "killed" ELSE @])
    /\ UNCHANGED <<variant, WHISPER_AVAILABLE, job_queue, clips_metadata, list_files, dequeues, bus, response,
                   templates, heap, disk, locals>>

\* The except clause of a handler: kill the child if there is one, record the error.
handler_except(w) ==
    /\ Ready(w, "except")
    /\ Commit(w, wk[w].job, ErrorWrites(wk[w].msg) \o Stamp,
              Publish([wk[w] EXCEPT !.pc = AfterTry(w),
                                    !.proc = IF wk[w].proc = "running" THEN "killed" ELSE @],
                      <<"job_update">>))
    /\ UNCHANGED <<variant, WHISPER_AVAILABLE, job_queue, clips_metadata, list_files, dequeues, bus, response,
                   templates, heap, disk, locals>>

\* The copy of the artifact into the session directory, after the finished stores:
\* os.makedirs and shutil.copy stand inside the try statement; only app.py's
\* do_download guards the copy (not the makedirs) with its own try/except.
\* The terminal job_update follows the copy; server.py's do_download then
\* publishes the list of videos.
session_copy(w) ==
    /\ Handles(w, "copy", {"do_download"} \cup FfmpegHandlers)
    /\ LET done == Publish([wk[w] EXCEPT !.pc = AfterTry(w)],
                           IF variant = "server" /\ wk[w].handler = "do_download"
                           THEN <<"job_update", "videos_update">>
                           ELSE <<"job_update">>)
       IN  IF JobOf(w).meta.session_id = NULL THEN
               /\ wk' = [wk EXCEPT ![w] = done]
               /\ jobs' = jobs
           ELSE \E outcome \in {"ok", "makedirs_raises", "copy_raises"} :
               IF \/ outcome = "ok"
                  \/ outcome = "copy_raises" /\ variant = "app"
                                             /\ wk[w].handler = "do_download"
               THEN /\ wk' = [wk EXCEPT ![w] = done]
                    /\ jobs' = jobs
               ELSE Raise(w, "PermissionError")
    /\ UNCHANGED <<variant, WHISPER_AVAILABLE, job_queue, clips_metadata, list_files, dequeues, bus, response,
                   templates, heap, disk, locals>>

\* ----------------------------------------------------------- do_download
do_download_begin(w) == Begin(w, "do_download", "engine")

\* The progress hook the download engine calls.  server.py emits from the hook;
\* app.py hands each broadcast to asyncio.create_task and returns to the engine.
progress(w) ==
    /\ Handles(w, "engine", {"do_download"})
    /\ wk[w].ticks < MaxTicks
    /\ \E status \in {"downloading", "finished"},
          total_bytes \in Bytes, downloaded \in Bytes :
        LET writes == IF status = "downloading"
                      THEN <<<<"progress", DownloadProgress(downloaded, total_bytes)>>,
                             <<"updated_at", NULL>>>>
                      ELSE <<<<"progress", FullProgress>>>> \o Stamp
            types == IF status = "downloading" THEN <<"download_progress", "job_update">>
                     ELSE <<"job_update">>
            next == [wk[w] EXCEPT !.ticks = @ + 1]
        IN  IF variant = "server" \/ active = <<>> THEN
                /\ Commit(w, wk[w].job, writes, Publish(next, types))
                /\ loop' = loop
            ELSE
                /\ Commit(w, wk[w].job, writes, [next EXCEPT !.seq = @ + Len(types)])
                /\ loop' = loop \o CreateTasks(Events(wk[w].job, wk[w].seq, types))
    /\ UNCHANGED <<variant, WHISPER_AVAILABLE, job_queue, clips_metadata, list_files, dequeues,
                   active, conn, inbox, response, templates, heap, disk, locals>>

\* ydl.download returns or raises.
do_download_exit(w) ==
    /\ Handles(w, "engine", {"do_download"})
    /\ \E ok \in BOOLEAN :
        IF ok THEN Commit(w, wk[w].job, FinishedWrites("filename") \o Stamp,
                          [wk[w] EXCEPT !.pc = "copy"])
        ELSE Raise(w, "engine error")
    /\ UNCHANGED <<variant, WHISPER_AVAILABLE, job_queue, clips_metadata, list_files, dequeues, bus, response,
                   templates, heap, disk, locals>>

\* --------------------------------------------------------- do_transcribe
\* The availability check without its `return`: the running store follows the error stores.
do_transcribe_begin_fallthrough(w) ==
    /\ Handles(w, "begin", {"do_transcribe"})
    /\ Commit(w, wk[w].job,
              (IF variant = "server" /\ ~WHISPER_AVAILABLE
               THEN ErrorWrites("faster-whisper not available") ELSE <<>>)
                  \o <<<<"status", "running">>>>,
              Publish([wk[w] EXCEPT !.pc = "validate"], <<"job_update">>))
    /\ UNCHANGED <<variant, WHISPER_AVAILABLE, job_queue, clips_metadata, list_files, dequeues, bus, response,
                   templates, heap, disk, locals>>

\* server.py checks WHISPER_AVAILABLE before the running store.
do_transcribe_begin(w) ==
    /\ Handles(w, "begin", {"do_transcribe"})
    /\ IF variant = "server" /\ ~WHISPER_AVAILABLE
       THEN Reject(w, "faster-whisper not available")
       ELSE Commit(w, wk[w].job, <<<<"status", "running">>>>,
                   Publish([wk[w] EXCEPT !.pc = "validate"], <<"job_update">>))
    /\ UNCHANGED <<variant, WHISPER_AVAILABLE, job_queue, clips_metadata, list_files, dequeues, bus, response,
                   templates, heap, disk, locals>>

\* Input check, model load (outside the try statement), duration probe, progress = 0.0.
do_transcribe_validate(w) ==
    /\ Handles(w, "validate", {"do_transcribe"})
    /\ \E exists \in BOOLEAN, loaded \in BOOLEAN, total_duration \in TotalDurations :
        IF ~exists THEN Reject(w, "file not found")
        ELSE IF ~loaded THEN /\ wk' = [wk EXCEPT ![w] = [wk[w] EXCEPT !.pc = "escaped",
                                                            !.msg = "engine error",
                                                            !.input_exists = TRUE]]
                             /\ jobs' = jobs
        ELSE Commit(w, wk[w].job, <<<<"progress", 0>>>>,
                    Publish([wk[w] EXCEPT !.pc = "segments", !.input_exists = TRUE,
                                          !.duration = total_duration,
                                          !.processed_time = 0],
                            <<"job_update">>))
    /\ UNCHANGED <<variant, WHISPER_AVAILABLE, job_queue, clips_metadata, list_files, dequeues, bus, response,
                   templates, heap, disk, locals>>

\* The progress stores after one item of the segment sequence.
SegmentWrites(w, processed_time) ==
    <<<<"progress", TranscribeProgress(JobOf(w).progress, processed_time, wk[w].duration)>>,
      <<"updated_at", NULL>>>>

\* One item of the segment sequence: the transcript_segment event, then the
\* progress stores and the job_update.
transcribe_item(w, items) ==
    /\ Handles(w, "segments", {"do_transcribe"})
    /\ wk[w].ticks < items
    /\ \E end \in Secs :
        LET processed_time == Max(wk[w].processed_time, end)
            next == [wk[w] EXCEPT !.ticks = @ + 1, !.processed_time = processed_time]
        IN  IF active = <<>> THEN
                Commit(w, wk[w].job, SegmentWrites(w, processed_time), next)
            ELSE
                /\ wk' = [wk EXCEPT ![w] = Publish([next EXCEPT !.pc = "update"],
                                                  <<"transcript_segment">>)]
                /\ jobs' = jobs
    /\ UNCHANGED <<variant, WHISPER_AVAILABLE, job_queue, clips_metadata, list_files, dequeues, bus, response,
                   templates, heap, disk, locals>>

do_transcribe_segment(w) == transcribe_item(w, MaxTicks)

\* The progress stores of an item whose transcript_segment event has been sent.
do_transcribe_update(w) ==
    /\ Handles(w, "update", {"do_transcribe"})
    /\ Commit(w, wk[w].job, SegmentWrites(w, wk[w].processed_time),
              Publish([wk[w] EXCEPT !.pc = "segments"], <<"job_update">>))
    /\ UNCHANGED <<variant, WHISPER_AVAILABLE, job_queue, clips_metadata, list_files, dequeues, bus, response,
                   templates, heap, disk, locals>>

\* The sequence ends: transcript file, session copy, finished stores; or something
\* in the try statement raises (the engine, the file write, the session copy).
do_transcribe_end(w) ==
    /\ Handles(w, "segments", {"do_transcribe"})
    /\ \E outcome \in {"ok", "engine_raises", "write_raises"} \cup
                      (IF JobOf(w).meta.session_id = NULL THEN {} ELSE {"copy_raises"}) :
        IF outcome = "ok" THEN
            Commit(w, wk[w].job, FinishedWrites("transcript_file") \o Stamp,
                   Publish([wk[w] EXCEPT !.pc = "ret"], <<"job_update">>))
        ELSE Raise(w, IF outcome = "engine_raises" THEN "engine error"
                      ELSE IF outcome = "write_raises" THEN "OSError"
                      ELSE "PermissionError")
    /\ UNCHANGED <<variant, WHISPER_AVAILABLE, job_queue, clips_metadata, list_files, dequeues, bus, response,
                   templates, heap, disk, locals>>

\* ------------------------------------------ do_clip and the template clips
do_clip_begin(w) == Begin(w, "do_clip", "validate")

do_clip_with_template_begin(w) == Begin(w, "do_clip_with_template", "validate")

do_template_clip_begin(w) == Begin(w, "do_template_clip", "validate")

\* Input file check and duration = end - start; duration <= 0 is rejected.
ValidateRange(w, exists) ==
    LET duration == JobOf(w).meta.end - JobOf(w).meta.start IN
    IF ~exists THEN Reject(w, "input file not found")
    ELSE IF duration <= 0 THEN
        Commit(w, wk[w].job, ErrorWrites("invalid start/end"),
               Publish([wk[w] EXCEPT !.pc = "ret", !.input_exists = TRUE],
                       <<"job_update">>))
    ELSE Commit(w, wk[w].job, <<>>,
                [wk[w] EXCEPT !.pc = "popen", !.input_exists = TRUE,
                              !.duration = duration])

do_clip_validate(w) ==
    /\ Handles(w, "validate", {"do_clip"})
    /\ \E exists \in BOOLEAN : ValidateRange(w, exists)
    /\ UNCHANGED <<variant, WHISPER_AVAILABLE, job_queue, clips_metadata, list_files, dequeues, bus, response,
                   templates, heap, disk, locals>>

\* template = meta["template"] of do_clip_with_template.
TemplateOf(w) == heap[JobOf(w).meta.template]

\* server.py: only the input file is checked; the duration is the template's.
do_clip_with_template_validate(w) ==
    /\ Handles(w, "validate", {"do_clip_with_template"})
    /\ \E exists \in BOOLEAN :
        IF ~exists THEN Reject(w, "input file not found")
        ELSE Commit(w, wk[w].job, <<>>,
                    [wk[w] EXCEPT !.pc = "popen", !.input_exists = TRUE,
                                  !.duration = TemplateOf(w).duration])
    /\ UNCHANGED <<variant, WHISPER_AVAILABLE, job_queue, clips_metadata, list_files, dequeues, bus, response,
                   templates, heap, disk, locals>>

\* app.py: SAFE_TOP, top_stack, ... are assigned only inside `if template.get("resolution")`,
\* and the loop over the texts reads them.
LayoutRaises(template) == ~template.resolution /\ template.texts # <<>>

\* The texts of a template-clip request: "y" with and without a position word,
\* "fontsize" given or left out (<<>>).
Top == <<"T", "o", "p">>
Middle == <<"m", "i", "d", "d", "l", "e">>
Center == <<"c", "e", "n", "t", "e", "r">>
Positions == {Top, Middle, Center, Bottom, <<>>}
FontSizes == {<<>>, <<45>>, <<50>>}
TextOverlays == {[y |-> pos, fontsize |-> f] : pos \in Positions, f \in FontSizes}
\* Templates with a resolution and up to MaxTexts texts.
LayoutTemplates ==
    {[resolution |-> TRUE, texts |-> q] :
        q \in UNION {[1..size -> TextOverlays] : size \in 0..MaxTexts}}
Overlaid ==
    [Load EXCEPT !.limit = 1, !.sessions = {NULL}, !.ranges = {<<0, 2>>},
                 !.templates = LayoutTemplates]

\* `sub in text`, and the places where sub stands in text.
Occurs(sub, text, p) ==
    /\ p >= 1
    /\ p + Len(sub) - 1 <= Len(text)
    /\ SubSeq(text, p, p + Len(sub) - 1) = sub
Contains(sub, text) == \E p \in 1..(Len(text) + 1) : Occurs(sub, text, p)

\* str.lower(), for the letters of the positions.
lower(text) ==
    [p \in DOMAIN text |->
        CASE text[p] = "T" -> "t" [] text[p] = "M" -> "m" [] text[p] = "C" -> "c"
          [] text[p] = "B" -> "b" [] OTHER -> text[p]]

\* The stack a text goes to: the chain of `in pos` tests, ending in the fallback.
StackOf(txt) ==
    LET pos == lower(txt.y) IN
    IF Contains(<<"t", "o", "p">>, pos) THEN "top"
    ELSE IF Contains(<<"m", "i", "d">>, pos) \/ Contains(Center, pos) THEN "center"
    ELSE "bottom"

\* The font sizes up to 100 for which the double nearest to fontsize * 1.4 lies
\* below the whole number 14 * fontsize / 10.
RoundedBelow == {45, 85, 90}

\* estimated_h = int(txt.get("fontsize", 50) * 1.4)
estimated_h(txt) ==
    LET fontsize == IF txt.fontsize = <<>> THEN 50 ELSE txt.fontsize[1]
    IN  IF fontsize \in RoundedBelow THEN (14 * fontsize) \div 10 - 1
        ELSE (14 * fontsize) \div 10

\* A stack that grows by the height alone.
push_without_padding(stack, height) == stack + height

\* x_stack += estimated_h + 40  # padding
push(stack, height) == stack + height + Padding

\* The loop `for txt in template.get("texts", [])` from text i on, with the three
\* stacking offsets: the auto_y of each text.
RECURSIVE texts_loop(_, _, _, _, _)
texts_loop(texts, i, top_stack, center_stack, bottom_stack) ==
    IF i > Len(texts) THEN <<>>
    ELSE LET height == estimated_h(texts[i]) IN
         IF StackOf(texts[i]) = "top" THEN
             <<SAFE_TOP + top_stack>>
                 \o texts_loop(texts, i + 1, push(top_stack, height), center_stack,
                               bottom_stack)
         ELSE IF StackOf(texts[i]) = "center" THEN
             <<SAFE_CENTER + center_stack>>
                 \o texts_loop(texts, i + 1, top_stack, push(center_stack, height),
                               bottom_stack)
         ELSE
             <<PORTRAIT_H - SAFE_BOTTOM - bottom_stack - height>>
                 \o texts_loop(texts, i + 1, top_stack, center_stack,
                               push(bottom_stack, height))

do_template_clip_validate(w) ==
    /\ Handles(w, "validate", {"do_template_clip"})
    /\ \E exists \in BOOLEAN :
        IF exists /\ JobOf(w).meta.end - JobOf(w).meta.start > 0
                  /\ LayoutRaises(JobOf(w).meta.template)
        THEN /\ wk' = [wk EXCEPT ![w] = [wk[w] EXCEPT !.pc = "escaped", !.msg = "NameError",
                                                    !.input_exists = TRUE]]
             /\ jobs' = jobs
        ELSE ValidateRange(w, exists)
    /\ auto_y' = IF wk'[w].pc = "popen"
                 THEN texts_loop(JobOf(w).meta.template.texts, 1, 0, 0, 0) ELSE auto_y
    /\ UNCHANGED <<variant, WHISPER_AVAILABLE, job_queue, clips_metadata, list_files,
                   dequeues, bus, response, templates, heap, disk, line>>

\* -------------------------------------------------------------- do_merge
do_merge_begin(w) == Begin(w, "do_merge", "prepare")

\* The list file is written, outside the try statement; the clips it names are not
\* looked at (exists: whether they are all there).
do_merge_prepare(w) ==
    /\ Handles(w, "prepare", {"do_merge"})
    /\ \E written \in BOOLEAN, exists \in BOOLEAN :
        IF written THEN
            /\ list_files' = list_files \cup {wk[w].job}
            /\ wk' = [wk EXCEPT ![w] = [wk[w] EXCEPT !.pc = "popen",
                                                    !.input_exists = exists]]
            /\ jobs' = jobs
        ELSE
            /\ list_files' = list_files
            /\ wk' = [wk EXCEPT ![w] = [wk[w] EXCEPT !.pc = "escaped", !.msg = "OSError",
                                                    !.input_exists = exists]]
            /\ jobs' = jobs
    /\ UNCHANGED <<variant, WHISPER_AVAILABLE, job_queue, clips_metadata, dequeues, bus, response,
                   templates, heap, disk, locals>>

\* finally: the list file is removed.
do_merge_finally(w) ==
    /\ Handles(w, "finally", {"do_merge"})
    /\ list_files' = list_files \ {wk[w].job}
    /\ wk' = [wk EXCEPT ![w].pc = "ret"]
    /\ UNCHANGED <<variant, WHISPER_AVAILABLE, jobs, job_queue, clips_metadata, dequeues, bus, response,
                   templates, heap, disk, locals>>

\* --------------------------------------------------- the transcoder process
\* app.py do_clip assigns cmd only inside `if text:`.
CmdUnbound(w) == variant = "app" /\ wk[w].handler = "do_clip" /\ ~JobOf(w).meta.text

\* subprocess.Popen(cmd, ...), outside the try statement (server.py: after
\* os.makedirs of the clip directory); do_merge then probes the clip durations.
popen(w) ==
    /\ Handles(w, "popen", FfmpegHandlers)
    /\ IF CmdUnbound(w) THEN Escape(w, "UnboundLocalError")
       ELSE \E spawned \in BOOLEAN, total_duration \in TotalDurations :
            IF ~spawned THEN Escape(w, "FileNotFoundError")
            ELSE /\ wk' = [wk EXCEPT ![w] =
                        [wk[w] EXCEPT !.pc = "read", !.proc = "running",
                                      !.duration = IF wk[w].handler = "do_merge"
                                                   THEN total_duration ELSE @]]
                 /\ jobs' = jobs
    /\ UNCHANGED <<variant, WHISPER_AVAILABLE, job_queue, clips_metadata, list_files, dequeues, bus, response,
                   templates, heap, disk, locals>>

\* A line of the diagnostic stream: a time marker (its seconds), a line without a
\* marker, or bytes the text decoder rejects.
Lines ==
    {[kind |-> "time", secs |-> s] : s \in Secs}
        \cup {[kind |-> "other", secs |-> 0], [kind |-> "undecodable", secs |-> 0]}

\* The progress event a handler publishes before the job_update.
ProgressEvent(handler) ==
    IF handler = "do_merge" THEN "merge_progress"
    ELSE IF handler = "do_template_clip" THEN "template_progress"
    ELSE "clip_progress"

\* ------------------------------------------------------- the time marker
\* A line of text is the sequence of its characters.
Digits == {"0", "1", "2", "3", "4", "5", "6", "7", "8", "9"}
DigitValue(c) ==
    CASE c = "0" -> 0 [] c = "1" -> 1 [] c = "2" -> 2 [] c = "3" -> 3 [] c = "4" -> 4
      [] c = "5" -> 5 [] c = "6" -> 6 [] c = "7" -> 7 [] c = "8" -> 8 [] c = "9" -> 9

\* \d+ at place p: the place after the longest run of digits (p: no digit there).
RECURSIVE DigitsEnd(_, _)
DigitsEnd(text, p) ==
    IF p <= Len(text) /\ text[p] \in Digits THEN DigitsEnd(text, p + 1) ELSE p

\* The place after a match of time=(\d+:\d+:\d+\.\d+) that begins at p; 0: no match.
\* No separator is a digit, so the longest runs are the only way to match.
MatchEnd(text, p) ==
    LET a == p + 5
        b == DigitsEnd(text, a) + 1
        c == DigitsEnd(text, b) + 1
        d == DigitsEnd(text, c) + 1
        e == DigitsEnd(text, d)
    IN  IF /\ Occurs(<<"t", "i", "m", "e", "=">>, text, p)
           /\ b > a + 1 /\ b - 1 <= Len(text) /\ text[b - 1] = ":"
           /\ c > b + 1 /\ c - 1 <= Len(text) /\ text[c - 1] = ":"
           /\ d > c + 1 /\ d - 1 <= Len(text) /\ text[d - 1] = "."
           /\ e > d
        THEN e ELSE 0

\* re.search(r"time=(\d+:\d+:\d+\.\d+)", line): <<>> is None, <<g>> a match whose
\* group 1 is g, taken at the leftmost place where the pattern matches.
re_search(text) ==
    LET places == {p \in 1..Len(text) : MatchEnd(text, p) > 0} IN
    IF places = {} THEN <<>>
    ELSE LET p == CHOOSE q \in places : \A r \in places : q <= r
         IN  <<SubSeq(text, p + 5, MatchEnd(text, p) - 1)>>

\* str.split(sep) for a separator of one character.
RECURSIVE split(_, _)
split(text, sep) ==
    IF \A p \in DOMAIN text : text[p] # sep THEN <<text>>
    ELSE LET p == CHOOSE q \in DOMAIN text :
                    text[q] = sep /\ \A r \in 1..(q - 1) : text[r] # sep
         IN  <<SubSeq(text, 1, p - 1)>> \o split(SubSeq(text, p + 1, Len(text)), sep)

\* int(text) for a text of decimal digits.
RECURSIVE int(_)
int(text) ==
    IF text = <<>> THEN 0
    ELSE 10 * int(SubSeq(text, 1, Len(text) - 1)) + DigitValue(text[Len(text)])

RECURSIVE Pow10(_)
Pow10(k) == IF k = 0 THEN 1 ELSE 10 * Pow10(k - 1)

\* float(text) for digits "." digits: the fraction <<numerator, denominator>>.
float(text) ==
    LET parts == split(text, ".")
    IN  <<int(parts[1]) * Pow10(Len(parts[2])) + int(parts[2]), Pow10(Len(parts[2]))>>

\* Whether int() and float() accept the parts of a time string.
WellFormed(parts) ==
    /\ Len(parts) >= 3
    /\ \A i \in 1..2 : parts[i] # <<>> /\ \A p \in DOMAIN parts[i] : parts[i][p] \in Digits
    /\ LET f == split(parts[3], ".") IN
        /\ Len(f) = 2
        /\ f[1] # <<>> /\ f[2] # <<>>
        /\ \A i \in 1..2 : \A p \in DOMAIN f[i] : f[i][p] \in Digits

\* A conversion that leaves the hours out.
ffmpeg_time_to_secs_without_hours(timestr) ==
    LET parts == split(timestr, ":") IN
    IF ~WellFormed(parts) THEN <<0, 1>>
    ELSE LET s == float(parts[3])
         IN  <<(int(parts[2]) * 60) * s[2] + s[1], s[2]>>

\* ffmpeg_time_to_secs: h*3600 + m*60 + s as a fraction; 0.0 when a part is not a
\* number.
ffmpeg_time_to_secs(timestr) ==
    LET parts == split(timestr, ":") IN
    IF ~WellFormed(parts) THEN <<0, 1>>
    ELSE LET s == float(parts[3])
         IN  <<(int(parts[1]) * 3600 + int(parts[2]) * 60) * s[2] + s[1], s[2]>>

\* What the loop makes of a line of text: `if "time=" in line`, the search, the
\* conversion of group 1.
Marker(text) ==
    IF Contains(<<"t", "i", "m", "e", "=">>, text) /\ re_search(text) # <<>>
    THEN [kind |-> "time", secs |-> ffmpeg_time_to_secs(re_search(text)[1])]
    ELSE [kind |-> "other", secs |-> <<0, 1>>]

\* The body of the loop for one line: a marker of secs[1] / secs[2] seconds, a line
\* without a marker, or bytes the text decoder rejects.
loop_body(w, kind, secs) ==
    LET next == [wk[w] EXCEPT !.ticks = @ + 1]
        told == Publish(next, <<ProgressEvent(wk[w].handler), "job_update">>)
    IN
    IF kind = "undecodable" THEN Raise(w, "UnicodeDecodeError")
    ELSE IF kind = "other" THEN Commit(w, wk[w].job, <<>>, next)
    ELSE IF wk[w].duration # 0 THEN
        Commit(w, wk[w].job,
               <<<<"progress", ClampedProgress(secs[1], secs[2] * wk[w].duration)>>,
                 <<"updated_at", NULL>>>>, told)
    ELSE IF wk[w].handler = "do_merge" THEN
        Commit(w, wk[w].job, <<<<"progress", 0>>, <<"updated_at", NULL>>>>, told)
    ELSE Raise(w, "ZeroDivisionError")

\* proc.stderr.readline() returned a line, given by what it holds.
readline(w) ==
    /\ Handles(w, "read", FfmpegHandlers)
    /\ wk[w].ticks < MaxTicks
    /\ \E l \in Lines : loop_body(w, l.kind, <<l.secs, 1>>)
    /\ UNCHANGED <<variant, WHISPER_AVAILABLE, job_queue, clips_metadata, list_files,
                   dequeues, bus, response, templates, heap, disk, locals>>

\* proc.stderr.readline() returned a line, given by its text.
readline_text(w) ==
    /\ Handles(w, "read", FfmpegHandlers)
    /\ wk[w].ticks < MaxTicks
    /\ \E text \in LineTexts :
        /\ line' = text
        /\ loop_body(w, Marker(text).kind, Marker(text).secs)
    /\ UNCHANGED <<variant, WHISPER_AVAILABLE, job_queue, clips_metadata, list_files,
                   dequeues, bus, response, templates, heap, disk, auto_y>>

\* Return codes of the transcoder; it fails when an input it is given is missing.
ExitCodes(w) == IF wk[w].input_exists THEN {0, 1} ELSE {1}

\* A failure message without the return code.
FailureMessage_generic(returncode) == "ffmpeg failed"

\* RuntimeError(f"ffmpeg failed with code {proc.returncode}")
FailureMessage(returncode) == "ffmpeg failed with code " \o ToString(returncode)

\* End of the stream, proc.wait(), the return code; on 0 the finished stores
\* and (server.py) the clips_metadata entry.
proc_exit(w) ==
    /\ Handles(w, "read", FfmpegHandlers)
    /\ \E returncode \in ExitCodes(w) :
        IF returncode # 0 THEN
            /\ wk' = [wk EXCEPT ![w] =
                   [wk[w] EXCEPT !.pc = "except", !.proc = "exited",
                                 !.returncode = returncode,
                                 !.msg = FailureMessage(returncode)]]
            /\ UNCHANGED <<jobs, clips_metadata>>
        ELSE
            /\ Commit(w, wk[w].job,
                      FinishedWrites(IF wk[w].handler = "do_merge" THEN "merged_file"
                                     ELSE "clip_file") \o Stamp,
                      [wk[w] EXCEPT !.pc = "copy", !.proc = "exited",
                                    !.returncode = returncode])
            /\ clips_metadata' =
                 IF variant = "server"
                 THEN clips_metadata \cup
                        {IF wk[w].handler = "do_clip"
                         THEN [job |-> wk[w].job, start |-> JobOf(w).meta.start,
                               end |-> JobOf(w).meta.end]
                         ELSE [job |-> wk[w].job, start |-> TemplateOf(w).start,
                               end |-> TemplateOf(w).start + TemplateOf(w).duration]}
                 ELSE clips_metadata
    /\ UNCHANGED <<variant, WHISPER_AVAILABLE, job_queue, list_files, dequeues, bus, response,
                   templates, heap, disk, locals>>

\* ------------------------------------------------------- the progress bus
\* ConnectionManager.connect: ws.accept(), then the connection joins the registry.
\* A connection is a WebSocket object: it is opened once.
connect(s) ==
    /\ conn[s] = "none"
    /\ variant = "app" => LoopFree
    /\ conn' = [conn EXCEPT ![s] = "open"]
    /\ active' = Append(active, s)
    /\ UNCHANGED <<variant, WHISPER_AVAILABLE, jobs, job_queue, wk, clips_metadata,
                   list_files, dequeues, inbox, loop, response, templates, heap, disk, locals>>

\* websocket_endpoint: the client has gone, ws.receive_text() raises
\* WebSocketDisconnect and ConnectionManager.disconnect takes the connection out
\* of the registry (server.py: the socket.io server drops a client that left).
disconnect(s) ==
    /\ conn[s] = "open"
    /\ variant = "app" => LoopFree
    /\ conn' = [conn EXCEPT ![s] = "closed"]
    /\ active' = SelectSeq(active, LAMBDA other : other # s)
    /\ UNCHANGED <<variant, WHISPER_AVAILABLE, jobs, job_queue, wk, clips_metadata,
                   list_files, dequeues, inbox, loop, response, templates, heap, disk, locals>>

\* server.py: the worker thread emits the next event of its step.
emit(w) ==
    /\ variant = "server"
    /\ wk[w].wq = <<>>
    /\ wk[w].out # <<>>
    /\ inbox' = Deliver(Message(Head(wk[w].out), JobOf(w)))
    /\ wk' = [wk EXCEPT ![w].out = Tail(@)]
    /\ UNCHANGED <<variant, WHISPER_AVAILABLE, jobs, job_queue, clips_metadata, list_files,
                   dequeues, active, conn, loop, response, templates, heap, disk, locals>>

\* An announcement that is a copy of the record taken when the job was created:
\* it carries status queued whatever the record says by now.
push_job_update_copy(i) ==
    /\ variant = "server"
    /\ i \in DOMAIN loop
    /\ inbox' = Deliver([Message(loop[i].ev, jobs[loop[i].ev.job])
                            EXCEPT !.status = "queued"])
    /\ loop' = SubSeq(loop, 1, i - 1) \o SubSeq(loop, i + 1, Len(loop))
    /\ UNCHANGED <<variant, WHISPER_AVAILABLE, jobs, job_queue, wk, clips_metadata,
                   list_files, dequeues, active, conn, response, templates, heap, disk, locals>>

\* server.py: the request thread of an endpoint gets to push_job_update(job_id):
\* state = jobs.get(job_id), socketio.emit('job_update', state).
push_job_update(i) ==
    /\ variant = "server"
    /\ i \in DOMAIN loop
    /\ inbox' = Deliver(Message(loop[i].ev, jobs[loop[i].ev.job]))
    /\ loop' = SubSeq(loop, 1, i - 1) \o SubSeq(loop, i + 1, Len(loop))
    /\ UNCHANGED <<variant, WHISPER_AVAILABLE, jobs, job_queue, wk, clips_metadata,
                   list_files, dequeues, active, conn, response, templates, heap, disk, locals>>

\* app.py: the worker awaits manager.broadcast for the next event of its step;
\* living = [] and the loop over list(self.active) starts.
broadcast_begin(w) ==
    /\ variant = "app"
    /\ wk[w].out # <<>>
    /\ Running = {}
    /\ \A i \in DOMAIN loop : loop[i].by # w
    /\ loop' = Append(loop, Broadcast(Head(wk[w].out), w, active, "send"))
    /\ wk' = [wk EXCEPT ![w].out = Tail(@)]
    /\ UNCHANGED <<variant, WHISPER_AVAILABLE, jobs, job_queue, clips_metadata, list_files,
                   dequeues, active, conn, inbox, response, templates, heap, disk, locals>>

\* A broadcast that was handed to create_task, or that an endpoint awaits, starts
\* to run: tasks start in the order of their creation.
task_start(i) ==
    /\ variant = "app"
    /\ i \in DOMAIN loop
    /\ loop[i].at = "created"
    /\ \A h \in 1..(i - 1) : loop[h].at # "created"
    /\ LoopFree
    /\ loop' = [loop EXCEPT ![i] = [@ EXCEPT !.todo = active, !.at = "send"]]
    /\ UNCHANGED <<variant, WHISPER_AVAILABLE, jobs, job_queue, wk, clips_metadata,
                   list_files, dequeues, active, conn, inbox, response, templates, heap, disk,
                   locals>>

\* A list living that holds every connection the loop has visited.
Living_keep_all(living, s, sent) == Append(living, s)

\* living.append(ws) stands after the send, inside the try statement.
Living(living, s, sent) == IF sent THEN Append(living, s) ELSE living

\* What a send to an open connection does: on "fast" it completes or raises, on
\* "slow" it suspends the sender.
SendOutcomes(s) == IF s = "slow" THEN {"blocked"} ELSE {"sent", "raised"}

\* The senders suspended on a connection are resumed in the order they were suspended.
LastTurn == Max(0, CHOOSE t \in {0} \cup {loop[i].turn : i \in DOMAIN loop} :
                       \A i \in DOMAIN loop : loop[i].turn <= t)

\* One iteration of the loop of broadcast: await ws.send_json(message).  The
\* message is written to the connection before the sender waits for it to drain.
\* A send that raises is answered with ws.close(), whose own errors are ignored.
send(i) ==
    /\ i \in DOMAIN loop
    /\ loop[i].at = "send"
    /\ loop[i].k <= Len(loop[i].todo)
    /\ LET s == loop[i].todo[loop[i].k] IN
        \E outcome \in (IF conn[s] = "open" THEN SendOutcomes(s) ELSE {"raised"}) :
            /\ inbox' = IF outcome = "raised" THEN inbox
                        ELSE [inbox EXCEPT ![s] =
                                 Append(@, Message(loop[i].ev, jobs[loop[i].ev.job]))]
            /\ conn' = IF outcome = "raised" /\ conn[s] = "open"
                       THEN [conn EXCEPT ![s] = "failed"] ELSE conn
            /\ loop' = [loop EXCEPT ![i] =
                   IF outcome = "blocked"
                   THEN [@ EXCEPT !.at = "blocked", !.turn = LastTurn + 1]
                   ELSE [@ EXCEPT !.k = @ + 1,
                                  !.living = Living(@, s, outcome = "sent")]]
    /\ UNCHANGED <<variant, WHISPER_AVAILABLE, jobs, job_queue, wk, clips_metadata,
                   list_files, dequeues, active, response, templates, heap, disk, locals>>

\* A suspended send is resumed when the event loop is free: the connection has
\* drained, or the client has gone and the send raises.
drained(i) ==
    /\ i \in DOMAIN loop
    /\ loop[i].at = "blocked"
    /\ \A h \in DOMAIN loop : loop[h].at = "blocked" => loop[i].turn <= loop[h].turn
    /\ Running = {}
    /\ \A w \in Workers : Suspended(w)
    /\ LET s == loop[i].todo[loop[i].k] IN
        loop' = [loop EXCEPT ![i] =
                   [@ EXCEPT !.at = "send", !.k = @ + 1,
                             !.living = Living(@, s, conn[s] = "open"), !.turn = 0]]
    /\ UNCHANGED <<variant, WHISPER_AVAILABLE, jobs, job_queue, wk, clips_metadata,
                   list_files, dequeues, active, conn, inbox, response, templates, heap, disk,
                   locals>>

\* The loop is over: self.active = living, and the broadcast returns.
broadcast_end(i) ==
    /\ i \in DOMAIN loop
    /\ loop[i].at = "send"
    /\ loop[i].k > Len(loop[i].todo)
    /\ active' = loop[i].living
    /\ loop' = SubSeq(loop, 1, i - 1) \o SubSeq(loop, i + 1, Len(loop))
    /\ UNCHANGED <<variant, WHISPER_AVAILABLE, jobs, job_queue, wk, clips_metadata,
                   list_files, dequeues, conn, inbox, response, templates, heap, disk, locals>>

\* ---------------------------------------------------------------- cleanup
\* str.endswith
EndsWith(name, suffix) ==
    /\ Len(name) >= Len(suffix)
    /\ SubSeq(name, Len(name) - Len(suffix) + 1, Len(name)) = suffix

Ext(letters) == <<".">> \o letters

\* os.remove(full) returns: the entry is a file.  On a directory it raises, and
\* the loop's `except Exception: pass` goes on with the next entry.
Removes(entry) == entry.kind = "file"

\* The end of both cleanup functions: `if not os.listdir(folder): os.rmdir(folder)`,
\* then `return True`.
AfterRemovals(dirs, session_id, left) ==
    [ret |-> "True",
     dirs |-> [dirs EXCEPT ![session_id] =
                  IF left = {} THEN NoDir ELSE [exists |-> TRUE, entries |-> left]]]

\* A cleanup that leaves the emptied directory in place.
cleanup_session_immediate_keep_folder(dirs, session_id, delete_clips, delete_video) ==
    LET folder == dirs[session_id]
        removed == {e \in folder.entries :
                      /\ IF EndsWith(e.name, Ext(<<"m", "p", "4">>))
                         THEN delete_clips \/ delete_video ELSE TRUE
                      /\ Removes(e)}
    IN  IF ~folder.exists THEN [ret |-> "False", dirs |-> dirs]
        ELSE [ret |-> "True",
              dirs |-> [dirs EXCEPT ![session_id] =
                           [exists |-> TRUE, entries |-> folder.entries \ removed]]]

\* A cleanup without the os.path.exists check: os.listdir raises FileNotFoundError.
cleanup_session_immediate_unchecked(dirs, session_id, delete_clips, delete_video) ==
    LET folder == dirs[session_id]
        removed == {e \in folder.entries :
                      /\ IF EndsWith(e.name, Ext(<<"m", "p", "4">>))
                         THEN delete_clips \/ delete_video ELSE TRUE
                      /\ Removes(e)}
    IN  IF ~folder.exists THEN [ret |-> "raised", dirs |-> dirs]
        ELSE AfterRemovals(dirs, session_id, folder.entries \ removed)

\* app.py cleanup_session_immediate.
cleanup_session_immediate(dirs, session_id, delete_clips, delete_video) ==
    LET folder == dirs[session_id]
        removed == {e \in folder.entries :
                      /\ IF EndsWith(e.name, Ext(<<"m", "p", "4">>))
                         THEN delete_clips \/ delete_video ELSE TRUE
                      /\ Removes(e)}
    IN  IF ~folder.exists THEN [ret |-> "False", dirs |-> dirs]
        ELSE AfterRemovals(dirs, session_id, folder.entries \ removed)

\* A cleanup_session that keeps transcripts and subtitles.
cleanup_session_keep_transcripts(dirs, session_id, delete_clips, delete_video) ==
    LET folder == dirs[session_id]
        removed == {e \in folder.entries :
                      /\ IF EndsWith(e.name, Ext(<<"m", "p", "4">>))
                         THEN delete_clips \/ delete_video
                         ELSE IF \/ EndsWith(e.name, Ext(<<"t", "x", "t">>))
                                 \/ EndsWith(e.name, Ext(<<"v", "t", "t">>))
                                 \/ EndsWith(e.name, Ext(<<"s", "r", "t">>))
                         THEN FALSE
                         ELSE TRUE
                      /\ Removes(e)}
    IN  IF ~folder.exists THEN [ret |-> "False", dirs |-> dirs]
        ELSE AfterRemovals(dirs, session_id, folder.entries \ removed)

\* A cleanup_session that removes .mp4 files only when delete_clips is set.
cleanup_session_clips_flag_only(dirs, session_id, delete_clips, delete_video) ==
    LET folder == dirs[session_id]
        removed == {e \in folder.entries :
                      /\ IF EndsWith(e.name, Ext(<<"m", "p", "4">>))
                         THEN delete_clips
                         ELSE IF \/ EndsWith(e.name, Ext(<<"t", "x", "t">>))
                                 \/ EndsWith(e.name, Ext(<<"v", "t", "t">>))
                                 \/ EndsWith(e.name, Ext(<<"s", "r", "t">>))
                         THEN TRUE
                         ELSE TRUE
                      /\ Removes(e)}
    IN  IF ~folder.exists THEN [ret |-> "False", dirs |-> dirs]
        ELSE AfterRemovals(dirs, session_id, folder.entries \ removed)

\* utils/video_tools.py cleanup_session.
cleanup_session(dirs, session_id, delete_clips, delete_video) ==
    LET folder == dirs[session_id]
        removed == {e \in folder.entries :
                      /\ IF EndsWith(e.name, Ext(<<"m", "p", "4">>))
                         THEN delete_clips \/ delete_video
                         ELSE IF \/ EndsWith(e.name, Ext(<<"t", "x", "t">>))
                                 \/ EndsWith(e.name, Ext(<<"v", "t", "t">>))
                                 \/ EndsWith(e.name, Ext(<<"s", "r", "t">>))
                         THEN TRUE
                         ELSE TRUE
                      /\ Removes(e)}
    IN  IF ~folder.exists THEN [ret |-> "False", dirs |-> dirs]
        ELSE AfterRemovals(dirs, session_id, folder.entries \ removed)

\* A call of one of the two functions, with what os.path.exists and os.listdir saw
\* and what came back.
Call(fn, session_id, delete_clips, delete_video, done) ==
    /\ session_dirs' = done.dirs
    /\ cleanup' = [fn |-> fn, session_id |-> session_id, delete_clips |-> delete_clips,
                   delete_video |-> delete_video,
                   existed |-> session_dirs[session_id].exists,
                   listing |-> session_dirs[session_id].entries, ret |-> done.ret]
    /\ UNCHANGED <<variant, WHISPER_AVAILABLE, jobs, job_queue, wk, clips_metadata,
                   list_files, dequeues, bus, response, templates, heap, locals>>

\* POST /api/session/cleanup of app.py.
api_cleanup ==
    /\ variant = "app"
    /\ \E session_id \in SessionIds, delete_clips \in BOOLEAN, delete_video \in BOOLEAN :
        Call("cleanup_session_immediate", session_id, delete_clips, delete_video,
             cleanup_session_immediate(session_dirs, session_id, delete_clips, delete_video))

\* The library function, called directly.
call_cleanup_session ==
    \E session_id \in SessionIds, delete_clips \in BOOLEAN, delete_video \in BOOLEAN :
        Call("cleanup_session", session_id, delete_clips, delete_video,
             cleanup_session(session_dirs, session_id, delete_clips, delete_video))

\* ------------------------------------------------------------ the system
\* The program after startup, apart from what it finds in sessions/.
Startup ==
    /\ variant \in Variants
    /\ WHISPER_AVAILABLE \in (IF variant = "server" THEN BOOLEAN ELSE {TRUE})
    /\ jobs = <<>>
    /\ job_queue = <<>>
    /\ wk = [w \in Workers |-> Idle]
    /\ clips_metadata = {}
    /\ list_files = {}
    /\ dequeues = <<>>
    /\ active = <<>>
    /\ conn = [s \in Sockets |-> "none"]
    /\ inbox = [s \in Sockets |-> <<>>]
    /\ loop = <<>>
    /\ response = NULL
    /\ templates = [name \in TemplateNames |-> IF name = "t1" THEN 1 ELSE 0]
    /\ heap = <<StartupTemplate>>
    /\ cleanup = NoCall
    /\ line = <<>>
    /\ auto_y = <<>>

Init == Startup /\ session_dirs = [s \in SessionIds |-> NoDir]

Submission(in) ==
    \/ api_download(in)
    \/ api_transcribe(in)
    \/ api_clip(in)
    \/ api_clip_with_template(in)
    \/ api_template_clip(in)
    \/ api_merge(in)

WorkerStep(w) ==
    \/ job_worker(w)
    \/ store(w)
    \/ worker_except(w)
    \/ task_done(w)
    \/ handler_except(w)
    \/ session_copy(w)
    \/ do_download_begin(w)
    \/ progress(w)
    \/ do_download_exit(w)
    \/ do_transcribe_begin(w)
    \/ do_transcribe_validate(w)
    \/ do_transcribe_segment(w)
    \/ do_transcribe_end(w)
    \/ do_clip_begin(w)
    \/ do_clip_with_template_begin(w)
    \/ do_template_clip_begin(w)
    \/ do_clip_validate(w)
    \/ do_clip_with_template_validate(w)
    \/ do_template_clip_validate(w)
    \/ do_merge_begin(w)
    \/ do_merge_prepare(w)
    \/ do_merge_finally(w)
    \/ popen(w)
    \/ readline(w)
    \/ proc_exit(w)

Work == \E w \in Workers : WorkerStep(w)

\* Requests with every combination of field values.
Next == Submission(Detail) \/ Work

Spec == Init /\ [][Next]_vars

\* A queue of several plain requests.
QueueNext == Submission(Load) \/ Work

QueueSpec == Init /\ [][QueueNext]_vars

\* The worker thread / task keeps running: job_worker loops forever, and every
\* engine or process call returns or raises.
Fairness == \A w \in Workers : WF_vars(WorkerStep(w))

\* One job whose id is put on the queue repeatedly.
RequeueNext == Submission(Again) \/ put_again \/ Work

RequeueSpec == Init /\ [][RequeueNext]_vars

\* A subscriber that connects before the first submission.
subscribe(s) == jobs = <<>> /\ connect(s)

\* The places of the list of broadcasts: per job the announcement, the tasks of the
\* progress hook and the broadcast the worker awaits.
Slots == 1..(MaxWatched * (2 * MaxTicks + 2))

\* The steps of the bus, and the worker steps that only a subscriber brings about.
Bus ==
    \/ \E s \in Sockets : subscribe(s)
    \/ \E w \in Workers : emit(w) \/ broadcast_begin(w) \/ do_transcribe_update(w)
    \/ \E i \in Slots :
        push_job_update(i) \/ task_start(i) \/ send(i) \/ drained(i) \/ broadcast_end(i)

\* One plain request, watched by subscribers.
BusNext == Submission(Watch) \/ Work \/ Bus

BusSpec == Init /\ [][BusNext]_vars

FairSpec == Spec /\ Fairness

FairQueueSpec == QueueSpec /\ Fairness

\* One transcription whose segment sequence is long enough for the cap of the
\* unknown-duration branch.
TranscribeNext ==
    \/ api_transcribe(Again)
    \/ \E w \in Workers :
        \/ job_worker(w)
        \/ store(w)
        \/ worker_except(w)
        \/ task_done(w)
        \/ handler_except(w)
        \/ do_transcribe_begin(w)
        \/ do_transcribe_validate(w)
        \/ transcribe_item(w, MaxItems)
        \/ do_transcribe_end(w)

TranscribeSpec == Init /\ [][TranscribeNext]_vars

\* Template-clip jobs with overrides while templates are created and replaced.
TemplateNext ==
    \/ create_template
    \/ api_clip_with_template(Custom)
    \/ \E w \in Workers :
        \/ job_worker(w)
        \/ store(w)
        \/ task_done(w)
        \/ handler_except(w)
        \/ session_copy(w)
        \/ do_clip_with_template_begin(w)
        \/ do_clip_with_template_validate(w)
        \/ popen(w)
        \/ readline(w)
        \/ proc_exit(w)

TemplateSpec == Init /\ [][TemplateNext]_vars

\* One clip job whose transcoder writes lines of text.
MarkerNext ==
    \/ api_clip(Timed)
    \/ \E w \in Workers :
        \/ job_worker(w)
        \/ store(w)
        \/ worker_except(w)
        \/ task_done(w)
        \/ handler_except(w)
        \/ session_copy(w)
        \/ do_clip_begin(w)
        \/ do_clip_validate(w)
        \/ popen(w)
        \/ readline_text(w)
        \/ proc_exit(w)

MarkerSpec == Init /\ [][MarkerNext]_vars

\* One template-clip job of app.py whose template has texts to lay out.
LayoutNext ==
    \/ api_template_clip(Overlaid)
    \/ \E w \in Workers :
        \/ job_worker(w)
        \/ worker_except(w)
        \/ task_done(w)
        \/ handler_except(w)
        \/ session_copy(w)
        \/ do_template_clip_begin(w)
        \/ do_template_clip_validate(w)
        \/ popen(w)
        \/ proc_exit(w)

LayoutSpec == Init /\ [][LayoutNext]_vars

\* One download while subscribers come and go.
ChurnNext ==
    \/ api_download(Watch)
    \/ \E w \in Workers :
        \/ job_worker(w)
        \/ store(w)
        \/ task_done(w)
        \/ handler_except(w)
        \/ session_copy(w)
        \/ do_download_begin(w)
        \/ progress(w)
        \/ do_download_exit(w)
        \/ emit(w)
        \/ broadcast_begin(w)
    \/ \E s \in Sockets : connect(s) \/ disconnect(s)
    \/ \E i \in Slots :
        push_job_update(i) \/ task_start(i) \/ send(i) \/ drained(i) \/ broadcast_end(i)

ChurnSpec == Init /\ [][ChurnNext]_vars

\* The cleanup functions on session directories left by earlier runs.
CleanupInit == Startup /\ session_dirs \in [SessionIds -> Dirs]

CleanupNext == api_cleanup \/ call_cleanup_session

CleanupSpec == CleanupInit /\ [][CleanupNext]_vars

\* ================================================================ claims
Terminal == {"finished", "error"}

\* The worker iteration that dequeued j is over: the handler has returned (or its
\* exception was handled by the worker loop) and every store is done.
Returned(j) ==
    /\ dequeues[j] > 0
    /\ \A w \in Workers : wk[w].job = j => Ready(w, "ret")

Rank(status) ==
    IF status = "queued" THEN 0 ELSE IF status = "running" THEN 1 ELSE 2

\* C1: once a job's status is finished or error, no step changes it; in
\* particular a finished job is never set to error.
C1_TerminalStatusIsStable ==
    [][\A j \in DOMAIN jobs :
          jobs[j].status \in Terminal => jobs'[j].status = jobs[j].status]_vars

\* C2: for a job whose handler has returned, result is present iff the status is
\* finished and error is present iff the status is error.
C2_ExactlyOneOfResultAndError ==
    \A j \in DOMAIN jobs :
        Returned(j) =>
            /\ (jobs[j].result # NULL) <=> (jobs[j].status = "finished")
            /\ (jobs[j].error # NULL) <=> (jobs[j].status = "error")

\* C3: every job that was created and enqueued eventually has status finished or
\* error, provided the worker keeps taking steps: again and again, every job created
\* so far is finished or error (jobs are never removed from the table, so no job
\* stays queued or running forever).
C3_EveryJobTerminates ==
    []<>(\A j \in DOMAIN jobs : jobs[j].status \in Terminal)

\* C3 witness: a job whose handler raised after it had written progress is terminal.
C3_Witness ==
    \E j \in DOMAIN jobs :
        /\ Returned(j)
        /\ jobs[j].status = "error"
        /\ jobs[j].result = NULL
        /\ jobs[j].progress > 0

\* C4: a clip job whose input exists, whose end is after its start and whose
\* transcoder exited with code 0 has, when do_clip returns, status finished and a result.
C4_ClipSucceeds ==
    \A w \in Workers :
        ( /\ Ready(w, "ret")
          /\ wk[w].handler = "do_clip"
          /\ wk[w].input_exists
          /\ JobOf(w).meta.end > JobOf(w).meta.start
          /\ wk[w].returncode = 0 )
        => JobOf(w).status = "finished" /\ JobOf(w).result # NULL

\* C5: no step lowers the rank of a job's status (queued < running < finished, error).
C5_StatusNeverMovesBackward ==
    [][\A j \in DOMAIN jobs : Rank(jobs'[j].status) >= Rank(jobs[j].status)]_vars

\* C5 witness: a job that went queued, running, finished and then error.
C5_Witness ==
    \E j \in DOMAIN jobs :
        Returned(j) /\ jobs[j].status = "error" /\ jobs[j].result # NULL

\* C6: the first status store of a handler takes the job from queued to running,
\* never from queued to finished or error.
C6_HandlerEntersRunningFirst ==
    [][\A j \in DOMAIN jobs :
          ( /\ jobs[j].status = "queued"
            /\ jobs'[j].status # "queued"
            /\ \E w \in Workers : wk[w].job = j /\ wk[w].handler # "unknown" )
          => jobs'[j].status = "running"]_vars

\* C7: while a job is running, no store lowers its progress.
C7_ProgressMonotoneWhileRunning ==
    [][\A j \in DOMAIN jobs :
          (jobs[j].status = "running" /\ jobs'[j].status = "running")
          => jobs'[j].progress >= jobs[j].progress]_vars

\* C8: every job's progress lies in [0, 100].
C8_ProgressInRange ==
    \A j \in DOMAIN jobs : 0 <= jobs[j].progress /\ jobs[j].progress <= FullProgress

\* C9: a job has progress 0 until a handler runs it, and a job whose handler has
\* returned with status finished has progress exactly 100.
C9_ProgressAtCreationAndFinish ==
    \A j \in DOMAIN jobs :
        /\ jobs[j].status = "queued" => jobs[j].progress = 0
        /\ (Returned(j) /\ jobs[j].status = "finished") => jobs[j].progress = FullProgress

\* C9 witness: a handler that received progress callbacks has returned with finished.
C9_Witness ==
    \E w \in Workers :
        Ready(w, "ret") /\ wk[w].ticks > 0 /\ JobOf(w).status = "finished"

\* The handler that belongs to a kind.
HandlerNamed(kind) ==
    CASE kind = "download" -> "do_download"
      [] kind = "transcribe" -> "do_transcribe"
      [] kind = "clip" -> "do_clip"
      [] kind = "clip_template" -> "do_clip_with_template"
      [] kind = "template_clip" -> "do_template_clip"
      [] kind = "merge" -> "do_merge"
      [] OTHER -> "none"

\* C10: every enqueued id is dequeued at most once and is either still waiting (once)
\* or was dequeued; the iteration that dequeued it runs the handler of the job's kind
\* or records "unknown job kind"; no id leaves the queue without one of the two.
C10_DispatchedExactlyOnce ==
    \A j \in DOMAIN jobs :
        /\ dequeues[j] + Occurrences(job_queue, j) = 1
        /\ \A w \in Workers :
              wk[w].job = j =>
                  \/ wk[w].handler = HandlerNamed(jobs[j].kind)
                  \/ wk[w].handler = "unknown" /\ wk[w].pc = "ret"
                        /\ jobs[j].status = "error"
        /\ (dequeues[j] = 1 /\ \A w \in Workers : wk[w].job # j)
              => jobs[j].status # "queued"

\* C10 witness: two jobs were submitted and each was dequeued and handled.
C10_Witness ==
    /\ Len(jobs) >= 2
    /\ \A j \in DOMAIN jobs : Returned(j) /\ dequeues[j] = 1

\* A handler invocation for job j is in progress in worker w.
Active(w, j) == wk[w].job = j /\ wk[w].pc # "idle"

\* C11: when an id is on the queue more than once, at most one handler invocation
\* for it is in progress at any time, and an invocation for it starts only when
\* none is in progress.
C11_AtMostOneActiveExecution ==
    [][\A j \in DOMAIN jobs :
          /\ Cardinality({w \in Workers : Active(w, j)'}) <= 1
          /\ dequeues'[j] > dequeues[j] => \A w \in Workers : ~Active(w, j)]_vars

\* C11 witness: the second invocation for an id is in progress.
C11_Witness ==
    \E j \in DOMAIN jobs, w \in Workers : dequeues[j] = 2 /\ Active(w, j)

\* The stores of worker w that are performed or pending.
Stored(w, j, field, value) ==
    \/ jobs[j][field] = value
    \/ \E i \in DOMAIN wk[w].wq : wk[w].wq[i] = <<field, value>>

\* C12: when an exception escapes a handler, the worker loop stores status error and
\* the exception's message in that job, changes no other job, and goes back to the
\* dequeue; the worker never stops: it always has a next step while it is in an
\* iteration or an id is waiting.
C12_WorkerSurvivesHandlerError ==
    /\ [][\A w \in Workers :
            (Ready(w, "escaped") /\ wk'[w] # wk[w]) =>
                /\ jobs'[wk[w].job].status = "error"
                /\ Stored(w, wk[w].job, "error", wk[w].msg)'
                /\ \A k \in DOMAIN jobs : k # wk[w].job => jobs'[k] = jobs[k]
                /\ wk'[w].pc = "ret"]_vars
    /\ [][\A w \in Workers :
            (Ready(w, "ret") /\ wk'[w] # wk[w]) => wk'[w] = Idle]_vars
    /\ [](\A w \in Workers :
            (wk[w].pc # "idle" \/ job_queue # <<>>) => ENABLED WorkerStep(w))

\* C12 witness: a job failed because the transcoder could not be started, and the
\* worker is running a job that was submitted after it.
C12_Witness ==
    \E j \in DOMAIN jobs, k \in DOMAIN jobs, w \in Workers :
        /\ j < k
        /\ Returned(j)
        /\ jobs[j].status = "error"
        /\ jobs[j].error = "FileNotFoundError"
        /\ Active(w, k)

\* C13: on every connection, the events that one run of a handler published for
\* its job (n > 0; the announcement of the endpoint has n = 0) are received in the
\* order of their publication.
C13_EventsArriveInPublicationOrder ==
    \A s \in Sockets : \A a, b \in DOMAIN inbox[s] :
        (/\ a < b
         /\ inbox[s][a].job = inbox[s][b].job
         /\ inbox[s][a].n > 0
         /\ inbox[s][b].n > 0) => inbox[s][a].n < inbox[s][b].n

\* The event was written to the connection.
Received(s, ev) ==
    \E a \in DOMAIN inbox[s] :
        inbox[s][a].job = ev.job /\ inbox[s][a].n = ev.n /\ inbox[s][a].type = ev.type

\* The broadcast at place i is over with this step: its loop has visited every
\* connection of its snapshot, and the list of broadcasts gets shorter.
Completes(i) ==
    /\ loop[i].at = "send"
    /\ loop[i].k > Len(loop[i].todo)
    /\ Len(loop') < Len(loop)

\* C14: when a broadcast completes, a connection of its snapshot is in the registry
\* if and only if the send to it succeeded, that is, the message was written to it;
\* and the worker that awaited the broadcast goes on where it was: nothing is raised.
C14_FailedSubscriberIsDropped ==
    [][\A i \in DOMAIN loop : Completes(i) =>
          /\ \A s \in Registered(loop[i].todo) :
                Received(s, loop[i].ev) <=> s \in Registered(active')
          /\ \A w \in Workers : loop[i].by = w =>
                wk'[w].pc = wk[w].pc /\ wk'[w].msg = wk[w].msg]_vars

\* C14 witness: no broadcast is in flight, a connection was closed after a failed
\* send and is not registered, and another one has received events and is registered.
C14_Witness ==
    /\ loop = <<>>
    /\ \E s, t \in Sockets :
        /\ conn[s] = "failed"
        /\ s \notin Registered(active)
        /\ t \in Registered(active)
        /\ inbox[t] # <<>>
        /\ \A a \in DOMAIN inbox[t] : ~Received(s, inbox[t][a])

\* C15: when the artifact was produced and the copy into the session directory (or
\* the creation of that directory) failed, the handler returns with status finished,
\* a result and no error.
C15_SessionCopyFailureIsNotFatal ==
    \A w \in Workers :
        (Ready(w, "ret") /\ wk[w].msg = "PermissionError") =>
            /\ JobOf(w).status = "finished"
            /\ JobOf(w).result # NULL
            /\ JobOf(w).error = NULL

\* The trim length of the clip a handler is asked to cut.
TrimDuration(w) ==
    IF wk[w].handler = "do_clip_with_template" THEN TemplateOf(w).duration
    ELSE JobOf(w).meta.end - JobOf(w).meta.start

\* C16: for a clip or template-clip job whose trim duration is not positive, no
\* transcoder process is ever started, and the handler returns with status error.
C16_NonPositiveDurationIsRejected ==
    \A w \in Workers :
        (Active(w, wk[w].job) /\ wk[w].handler \in ClipHandlers /\ TrimDuration(w) <= 0) =>
            /\ wk[w].proc = "none"
            /\ Ready(w, "ret") => JobOf(w).status = "error"

\* The handlers that read input files, once they are past the point where the
\* input files are looked up.
PastLookup(w) ==
    /\ Active(w, wk[w].job)
    /\ wk[w].handler \in {"do_transcribe", "do_merge"} \cup ClipHandlers
    /\ wk[w].pc \notin {"begin", "validate", "prepare"}

\* C17: when an input file a transcribe, clip, template-clip or merge job refers to
\* does not exist, no process is started and the engine is not run for the job, and
\* the handler returns with status error and a message.
C17_MissingInputIsRejected ==
    \A w \in Workers :
        (PastLookup(w) /\ ~wk[w].input_exists) =>
            /\ wk[w].proc = "none"
            /\ wk[w].pc \notin {"segments", "update"}
            /\ Ready(w, "ret") => JobOf(w).status = "error" /\ JobOf(w).error # NULL

\* C18: when a handler that started a transcoder process returns with status error,
\* the process has exited or was killed.
C18_NoChildOutlivesFailedJob ==
    \A w \in Workers :
        (Ready(w, "ret") /\ wk[w].proc # "none" /\ JobOf(w).status = "error") =>
            wk[w].proc \in {"exited", "killed"}

\* C18 witness: a handler returned with status error after killing its transcoder.
C18_Witness ==
    \E w \in Workers :
        Ready(w, "ret") /\ wk[w].proc = "killed" /\ JobOf(w).status = "error"

\* C19: once the transcoder of a clip, template-clip or merge job has exited with a
\* non-zero code, the job has no result and is never finished, and the handler
\* returns with status error and a message that contains the code.
C19_NonZeroExitIsAnError ==
    \A w \in Workers :
        (Active(w, wk[w].job) /\ wk[w].handler \in FfmpegHandlers /\ wk[w].returncode > 0) =>
            /\ JobOf(w).status # "finished"
            /\ JobOf(w).result = NULL
            /\ Ready(w, "ret") =>
                  /\ JobOf(w).status = "error"
                  /\ JobOf(w).error = "ffmpeg failed with code " \o ToString(wk[w].returncode)

\* C19 witness: a handler returned after its transcoder exited with code 1.
C19_Witness ==
    \E w \in Workers :
        Ready(w, "ret") /\ wk[w].handler \in FfmpegHandlers /\ wk[w].returncode = 1

\* The error answers of the template-clip endpoints.
Rejections ==
    {"template not found", "filename and template_name required",
     "template_name or template_json required"}

\* C20: a step that answers a template-clip submission with an error leaves the job
\* table, the queue, the registry, the broadcasts and every connection unchanged; a
\* step that creates or enqueues a job answers with the job id.
C20_RejectedSubmissionChangesNothing ==
    [][/\ (response' \in Rejections /\ response' # response) =>
             UNCHANGED <<jobs, job_queue, dequeues, bus>>
       /\ Len(jobs') > Len(jobs) => response' = "job_id"]_vars

\* C20 witness: with a subscriber connected and a job in the table, a submission was
\* answered "template not found".
C20_Witness ==
    /\ response = "template not found"
    /\ active # <<>>
    /\ jobs # <<>>

\* C24: a job whose status is queued or running has neither a result nor an error.
C24_NoOutcomeBeforeTerminal ==
    \A j \in DOMAIN jobs :
        jobs[j].status \in {"queued", "running"} =>
            jobs[j].result = NULL /\ jobs[j].error = NULL

\* C24 witness: a running job whose handler has already stored progress.
C24_Witness ==
    \E w \in Workers :
        /\ Active(w, wk[w].job)
        /\ JobOf(w).status = "running"
        /\ JobOf(w).progress > 0

\* C25: what GET /api/job/<id> returns is never a partly stored outcome: status
\* finished comes with a result and progress 100, status error with a message.
C25_TerminalUpdateIsAtomic ==
    \A j \in DOMAIN jobs :
        /\ jobs[j].status = "finished" =>
              jobs[j].result # NULL /\ jobs[j].progress = FullProgress
        /\ jobs[j].status = "error" => jobs[j].error # NULL

\* C26: a step that changes an existing job record is a step of the worker that
\* dequeued the id and is still in that iteration, and of no other worker.
C26_OnlyTheDequeuingWorkerWrites ==
    [][\A j \in DOMAIN jobs :
          jobs'[j] # jobs[j] =>
              /\ dequeues'[j] > 0
              /\ \E w \in Workers :
                    /\ wk'[w] # wk[w]
                    /\ Active(w, j)'
                    /\ \A v \in Workers \ {w} : wk'[v] = wk[v]]_vars

\* C26 witness: the worker has written to the first job while a second one waits.
C26_Witness ==
    /\ Len(jobs) = 2
    /\ job_queue = <<2>>
    /\ jobs[1].status = "running"
    /\ jobs[1].progress > 0

\* C27: when a handler or worker step has changed a field of a job, updated_at is
\* the time of that step.
C27_EveryMutationAdvancesUpdatedAt ==
    \A w \in Workers :
        (wk[w].pc # "idle" /\ wk[w].wq = <<>>) => JobOf(w).updated_at_current

\* C29: ids leave the queue in the order they were put (the id of a job is its
\* position in that order): a job is taken only after every job put before it, and
\* with the single worker it leaves status queued only after the worker iteration
\* of every earlier job is over and left that job finished or error.
C29_DispatchInEnqueueOrder ==
    /\ \A i, k \in DOMAIN job_queue : i < k => job_queue[i] < job_queue[k]
    /\ \A a, b \in DOMAIN jobs :
        a < b =>
            /\ dequeues[b] > 0 => dequeues[a] > 0 /\ \A w \in Workers : wk[w].job # a
            /\ jobs[b].status # "queued" => jobs[a].status \in Terminal

\* C29 witness: the second job is running and the first one, put before it, is over.
C29_Witness ==
    /\ Len(jobs) = 2
    /\ jobs[2].status = "running"
    /\ jobs[1].status \in Terminal
    /\ dequeues[1] = 1

\* C30: in a transcription whose duration is unknown, progress is min(99, 5 k)
\* percent after the k-th item of the segment sequence; it is below 100 as long as
\* the sequence has not ended, and 100 only in a job whose status is finished.
C30_HeuristicProgress ==
    \A w \in Workers :
        (/\ Active(w, wk[w].job)
         /\ wk[w].handler = "do_transcribe"
         /\ wk[w].pc \notin {"begin", "validate"}
         /\ wk[w].input_exists
         /\ wk[w].duration = 0) =>
            /\ wk[w].pc = "segments" =>
                  JobOf(w).progress = Min(99 * Scale, 5 * Scale * wk[w].ticks)
            /\ JobOf(w).progress = 100 * Scale => JobOf(w).status = "finished"
            /\ JobOf(w).status # "finished" => JobOf(w).progress <= 99 * Scale

\* C30 witness: the twentieth and later items of a transcription of unknown
\* duration have been processed and the sequence has not ended.
C30_Witness ==
    \E w \in Workers :
        /\ wk[w].handler = "do_transcribe"
        /\ wk[w].pc = "segments"
        /\ wk[w].duration = 0
        /\ wk[w].ticks > 20
        /\ JobOf(w).progress = 99 * Scale

\* What is stored under a template name: nothing, or the items of the dict.
StoredTemplate(name) ==
    IF templates[name] = 0 THEN <<>> ELSE <<heap[templates[name]]>>

\* The template in the parameters of job j.
Captured(j) == heap[jobs[j].meta.template]

\* C21: a step that submits a job leaves what is stored under every template name
\* as it was, and no step (in particular no upsert of a template) changes the
\* template in the parameters of a job that was submitted before.
C21_TemplateCopyIsPrivate ==
    [][/\ Len(jobs') > Len(jobs) =>
             \A name \in TemplateNames : StoredTemplate(name)' = StoredTemplate(name)
       /\ \A j \in DOMAIN jobs :
             jobs[j].kind = "clip_template" => Captured(j)' = Captured(j)]_vars

\* C21 witness: a job was submitted for template t1 with custom overlays, and t1
\* was replaced afterwards.
C21_Witness ==
    /\ Len(jobs) = 1
    /\ jobs[1].kind = "clip_template"
    /\ jobs[1].meta.template = 2
    /\ Captured(1).overlays = "custom"
    /\ templates["t1"] = 3
    /\ StoredTemplate("t1") # <<Captured(1)>>

\* C22: after a cleanup with both flags true of a session directory that held
\* regular files only, the files and the directory are gone and the call returned True.
C22_FullCleanupRemovesSession ==
    (/\ cleanup.fn # NULL
     /\ cleanup.delete_clips
     /\ cleanup.delete_video
     /\ cleanup.existed
     /\ \A e \in cleanup.listing : e.kind = "file") =>
        /\ cleanup.ret = "True"
        /\ session_dirs[cleanup.session_id] = NoDir

\* C22 witness: a directory with a.mp4 and b.txt was cleaned up.
C22_Witness ==
    /\ cleanup.fn # NULL
    /\ cleanup.delete_clips
    /\ cleanup.delete_video
    /\ cleanup.listing = {[kind |-> "file", name |-> FileA], [kind |-> "file", name |-> FileB]}
    /\ cleanup.ret = "True"
    /\ session_dirs[cleanup.session_id] = NoDir

\* C23: a cleanup call for a session whose directory does not exist returns False
\* (it does not raise) and leaves every session directory as it was.
C23_MissingSessionIsNotFound ==
    [][(disk' # disk /\ ~cleanup'.existed) =>
          /\ cleanup'.ret = "False"
          /\ session_dirs' = session_dirs]_vars

\* C23 witness: a cleanup of a missing session returned False while another
\* session has files.
C23_Witness ==
    /\ cleanup.fn # NULL
    /\ ~cleanup.existed
    /\ cleanup.ret = "False"
    /\ \E s \in SessionIds \ {cleanup.session_id} : session_dirs[s].entries # {}

\* The message at place a of connection s is a job_update for job j.
UpdateOf(s, a, j) == inbox[s][a].type = "job_update" /\ inbox[s][a].job = j

\* C28: on every connection, a job_update of a job that follows one with a
\* terminal status has a terminal status; and once the worker iteration of a job
\* is over, every open connection has received a job_update that carries the
\* job's terminal status together with a result or an error.
C28_FinalUpdateIsPublished ==
    \A s \in Sockets : \A j \in DOMAIN jobs :
        /\ \A a, b \in DOMAIN inbox[s] :
              (/\ a < b
               /\ UpdateOf(s, a, j)
               /\ UpdateOf(s, b, j)
               /\ inbox[s][a].status \in Terminal) => inbox[s][b].status \in Terminal
        /\ (conn[s] = "open" /\ Returned(j)) =>
              \E a \in DOMAIN inbox[s] :
                  /\ UpdateOf(s, a, j)
                  /\ inbox[s][a].status \in Terminal
                  /\ inbox[s][a].status = jobs[j].status
                  /\ inbox[s][a].result # NULL \/ inbox[s][a].error # NULL

\* C28 witness: a connection has received a job_update with status running and,
\* after it, the job_update with the terminal status of a job that is over.
C28_Witness ==
    \E s \in Sockets, j \in DOMAIN jobs :
        /\ Returned(j)
        /\ conn[s] = "open"
        /\ \E a, b \in DOMAIN inbox[s] :
              /\ a < b
              /\ UpdateOf(s, a, j)
              /\ UpdateOf(s, b, j)
              /\ inbox[s][a].status = "running"
              /\ inbox[s][b].status \in Terminal

\* C36: every id on the queue is the id of a job record whose status is queued,
\* and no id is on the queue twice.
C36_QueueHoldsQueuedJobsOnce ==
    \A i \in DOMAIN job_queue :
        /\ job_queue[i] \in DOMAIN jobs
        /\ jobs[job_queue[i]].status = "queued"
        /\ Occurrences(job_queue, job_queue[i]) = 1

\* C36 witness: two ids wait on the queue while the worker is idle.
C36_Witness ==
    /\ Len(job_queue) = 2
    /\ \A w \in Workers : wk[w].pc = "idle"

\* C37: a clips_metadata entry belongs to a clip or template-clip job that is
\* finished, or still in the handler that wrote it: no job whose status is error
\* has left an entry.
C37_MetadataOnlyOfFinishedJobs ==
    \A entry \in clips_metadata : jobs[entry.job].status # "error"

\* C38: once the handler of a merge job has returned and the job is terminal, the
\* list file the job wrote is gone.
C38_ListFileGoneAfterMerge ==
    \A j \in DOMAIN jobs :
        (jobs[j].kind = "merge" /\ Returned(j) /\ jobs[j].status \in Terminal)
            => j \notin list_files

\* C39: on the session directories of every reachable state, for every session id
\* and every combination of the two flags, cleanup_session_immediate and
\* cleanup_session leave the same files, make the same decision about the
\* directory and return the same value.
C39_CleanupImplementationsAgree ==
    \A session_id \in SessionIds, delete_clips \in BOOLEAN, delete_video \in BOOLEAN :
        cleanup_session_immediate(session_dirs, session_id, delete_clips, delete_video)
            = cleanup_session(session_dirs, session_id, delete_clips, delete_video)

\* C39 witness: cleanup_session has run with both flags off on a directory holding
\* a transcript and a clip; the transcript is gone and the clip is left.
C39_Witness ==
    /\ cleanup.fn = "cleanup_session"
    /\ cleanup.existed /\ ~cleanup.delete_clips /\ ~cleanup.delete_video
    /\ {e.name : e \in cleanup.listing} = {FileA, FileB}
    /\ {e.name : e \in session_dirs[cleanup.session_id].entries} = {FileA}
    /\ cleanup.ret = "True"

\* C40: after a cleanup of an existing session directory, a regular file of the
\* listing is left exactly when its name ends in .mp4 and neither flag is set,
\* the directory is gone exactly when nothing is left in it, and the call has
\* returned True.
C40_CleanupRule ==
    (cleanup.fn # NULL /\ cleanup.existed) =>
        LET after == session_dirs[cleanup.session_id]
            kept == {e \in cleanup.listing :
                       \/ e.kind # "file"
                       \/ /\ EndsWith(e.name, Ext(<<"m", "p", "4">>))
                          /\ ~(cleanup.delete_clips \/ cleanup.delete_video)}
        IN  /\ after.entries = kept
            /\ after.exists <=> kept # {}
            /\ cleanup.ret = "True"

\* C40 witness: a cleanup with delete_video alone removed a clip and a file
\* named c.MP4, could not remove a subdirectory, left the directory in place and
\* returned True.
C40_Witness ==
    /\ cleanup.fn # NULL /\ cleanup.existed
    /\ ~cleanup.delete_clips /\ cleanup.delete_video
    /\ {e.name : e \in cleanup.listing} = {FileA, FileC, SubDir}
    /\ {e.name : e \in session_dirs[cleanup.session_id].entries} = {SubDir}
    /\ session_dirs[cleanup.session_id].exists
    /\ cleanup.ret = "True"

\* C35: on every connection, the statuses carried by the job_update messages of
\* one job never go down in the order queued < running < finished or error: no
\* announcement of the queued job arrives after an update of the worker.
C35_StatusesArriveInOrder ==
    \A s \in Sockets : \A a, b \in DOMAIN inbox[s] :
        (/\ a < b
         /\ inbox[s][a].type = "job_update" /\ inbox[s][b].type = "job_update"
         /\ inbox[s][a].job = inbox[s][b].job)
            => Rank(inbox[s][a].status) <= Rank(inbox[s][b].status)

\* C35 witness: the worker dequeued the job and published its running update
\* before the announcement of the submission was sent; the announcement, sent
\* afterwards, carried status running.
C35_Witness ==
    \E s \in Sockets : \E a, b \in DOMAIN inbox[s] :
        /\ a < b
        /\ inbox[s][a].type = "job_update" /\ inbox[s][a].n > 0
        /\ inbox[s][b].type = "job_update" /\ inbox[s][b].n = 0
        /\ inbox[s][a].job = inbox[s][b].job
        /\ inbox[s][b].status # "queued"

\* The step reads a line in the transcoder loop of worker w.
ReadsLine(w) ==
    /\ wk[w].pc = "read"
    /\ wk'[w].ticks = wk[w].ticks + 1

\* The seconds of a time <<h, m, s, f, k>>, in units of 10^-k.
StampUnits(stamp) ==
    (stamp[1] * 3600 + stamp[2] * 60 + stamp[3]) * Pow10(stamp[5]) + stamp[4]

\* C31 as stated: a line with the marker h:m:s.f stores exactly
\* min(100, (h*3600 + m*60 + s.f) / T * 100), 00:01:05.50 with T = 130 stores 50,
\* and any other line leaves the progress as it was.
C31_ProgressIsExactRatio ==
    [][\A w \in Workers : ReadsLine(w) =>
          LET j == wk[w].job
              T == wk[w].duration
          IN  /\ \A prefix \in Prefixes, stamp \in Stamps :
                    line' = MarkerLine(prefix, stamp) =>
                        /\ jobs'[j].progress * T * Pow10(stamp[5])
                             = Min(FullProgress * T * Pow10(stamp[5]),
                                   StampUnits(stamp) * 100 * Scale)
                        /\ (stamp = <<0, 1, 5, 50, 2>> /\ T = 130) =>
                               jobs'[j].progress = 50 * Scale
              /\ line' \in OtherLines => jobs'[j].progress = jobs[j].progress]_vars

\* C31 (amended): a line with the marker h:m:s.f stores
\* round(min(100, (h*3600 + m*60 + s.f) / T * 100), 2), so that 00:01:05.50 with
\* T = 130 stores 50.38; any other line leaves the progress as it was.
C31_ProgressIsRoundedRatio ==
    [][\A w \in Workers : ReadsLine(w) =>
          LET j == wk[w].job
              T == wk[w].duration
          IN  /\ \A prefix \in Prefixes, stamp \in Stamps :
                    line' = MarkerLine(prefix, stamp) =>
                        /\ jobs'[j].progress
                             = Min(FullProgress,
                                   RoundHalfEven(StampUnits(stamp) * 100 * Scale,
                                                 T * Pow10(stamp[5])))
                        /\ (stamp = <<0, 1, 5, 50, 2>> /\ T = 130) =>
                               jobs'[j].progress = 5038
              /\ line' \in OtherLines => jobs'[j].progress = jobs[j].progress]_vars

\* C31 witness: the line time=00:01:05.50 was read by a clip job of 130 seconds,
\* whose progress is 50.38.
C31_Witness ==
    \E w \in Workers :
        /\ wk[w].pc = "read" /\ wk[w].ticks > 0 /\ wk[w].duration = 130
        /\ line = MarkerLine(<<>>, <<0, 1, 5, 50, 2>>)
        /\ jobs[wk[w].job].progress = 5038

\* The texts of job j have been laid out.
Laid(j) ==
    /\ jobs[j].kind = "template_clip"
    /\ jobs[j].meta.template.texts # <<>>
    /\ Len(auto_y) = Len(jobs[j].meta.template.texts)

\* Texts i and k are neighbours on one stack: none between them is on it.
Neighbours(texts, i, k) ==
    /\ i < k
    /\ StackOf(texts[i]) = StackOf(texts[k])
    /\ \A between \in (i + 1)..(k - 1) : StackOf(texts[between]) # StackOf(texts[i])

\* fontsize * 1.4 in tenths of a pixel, and int(fontsize * 1.4) as Python
\* computes it (45 * 1.4 is 62.99999999999999, 50 * 1.4 is 70.0).
HeightTenths(txt) == 14 * (IF txt.fontsize = <<>> THEN 50 ELSE txt.fontsize[1])
HeightTruncated(txt) == IF txt.fontsize = <<45>> THEN 62 ELSE 70

C34_RemovedSubscriberStaysOut ==
    [][\A s \in Sockets :
          (s \in Registered(active') /\ s \notin Registered(active))
              => (conn[s] = "none" /\ conn'[s] = "open")]_vars

\* C33: when a broadcast completes, an open connection that joined the registry
\* after the broadcast took its snapshot is still in the registry.
C33_LateSubscriberStaysRegistered ==
    [][\A i \in DOMAIN loop : Completes(i) =>
          \A s \in Sockets :
              (/\ conn[s] = "open"
               /\ s \in Registered(active)
               /\ s \notin Registered(loop[i].todo))
                  => s \in Registered(active')]_vars

====
